---- MODULE Spec2Model ----
(***************************************************************************)
(* Model of the ATOMS3 Switch macro player firmware                        *)
(* (esp/switch_macro_player/switch_macro_player.ino, SwitchHID.cpp) and of *)
(* the browser side transfer (editor/src/utils/ble_transfer.js).           *)
(*                                                                         *)
(* Byte strings are sequences of one-character strings; the token NUL      *)
(* stands for the zero byte.                                               *)
(***************************************************************************)
EXTENDS Integers, Sequences, FiniteSets, TLC

VARIABLES currentStatus, statusChanged, rxBuffer, currentMacro, player,
          report, fileStore, connected, led, now, last, expected, played,
          ending, pending

vars == <<currentStatus, statusChanged, rxBuffer, currentMacro, player,
          report, fileStore, connected, led, now, last, expected, played,
          ending, pending>>

(***************************************************************************)
(* Bounds of the model.                                                    *)
(***************************************************************************)
\* largest number of bytes the receive buffer is let to grow to
MaxBuf == 110
\* largest value of the millisecond clock
MaxTime == 1001
\* the clock is read at the first MaxFine + 1 milliseconds of every second
MaxFine == 1
\* number of bytes of a data message of the model
PieceLen == 64
\* largest loop count and loop interval of the documents given to loadSettings
MaxLoopVal == 2
\* largest loop count of the stored macros that are played
MaxCount == 3
\* largest number of passes a playback is followed for
MaxPasses == 4

(***************************************************************************)
(* Byte strings.                                                           *)
(***************************************************************************)
NUL == "NUL"

IsPrefix(p, s) == Len(p) <= Len(s) /\ SubSeq(s, 1, Len(p)) = p

Min(a, b) == IF a <= b THEN a ELSE b

RECURSIVE Pow2(_)
Pow2(n) == IF n = 0 THEN 1 ELSE 2 * Pow2(n - 1)

\* bit i of the non-negative integer n
Bit(n, i) == (n \div Pow2(i)) % 2 = 1

\* std::string::c_str() read as a C string: the bytes before the first zero byte
RECURSIVE CStr(_)
CStr(s) == IF s = <<>> \/ Head(s) = NUL THEN <<>>
           ELSE <<Head(s)>> \o CStr(Tail(s))

DigitChars == <<"0", "1", "2", "3", "4", "5", "6", "7", "8", "9">>

DigitValue(c) == CHOOSE d \in 0..9 : DigitChars[d + 1] = c

IsDigit(c) == \E d \in 0..9 : DigitChars[d + 1] = c

\* decimal text of an integer, as JSON.stringify and template strings write it
RECURSIVE NatText(_)
NatText(n) == IF n < 10 THEN <<DigitChars[n + 1]>>
              ELSE NatText(n \div 10) \o <<DigitChars[(n % 10) + 1]>>

IntText(n) == IF n < 0 THEN <<"-">> \o NatText(0 - n) ELSE NatText(n)

(***************************************************************************)
(* Macro documents.  A document is the tree ArduinoJson holds: the set of  *)
(* keys that are present and their values.  A value of an absent key is    *)
(* never read (the filler is FALSE, 0 or the empty sequence).              *)
(***************************************************************************)
LoopObj(keys, enabled, count, interval) ==
    [keys |-> keys, enabled |-> enabled, count |-> count, interval |-> interval]

NoLoop == LoopObj({}, FALSE, 0, 0)

Event(keys, t, b, a) == [keys |-> keys, t |-> t, b |-> b, a |-> a]

Doc(keys, loop, events) == [keys |-> keys, loop |-> loop, events |-> events]

\* the tree left in a document object that holds nothing
EmptyDoc == Doc({}, NoLoop, <<>>)

\* {"events":[]}
DocEmpty == Doc({"events"}, NoLoop, <<>>)

\* {"loop":{"enabled":true,"count":2,"interval":1},
\*  "events":[{"t":0,"b":[0,16],"a":[1,0,0,-1]},{"t":0,"b":[19]}]}
DocLoop == Doc({"loop", "events"},
               LoopObj({"enabled", "count", "interval"}, TRUE, 2, 1),
               << Event({"t", "b", "a"}, 0, <<0, 16>>, <<1, 0, 0, -1>>),
                  Event({"t", "b"}, 0, <<19>>, <<>>) >>)

\* {"loop":{"count":3},"events":[{"t":2,"b":[1]}]}
DocOnce == Doc({"loop", "events"},
               LoopObj({"count"}, FALSE, 3, 0),
               << Event({"t", "b"}, 2, <<1>>, <<>>) >>)

\* [{"t":0,"b":[0]},{"t":1,"b":[1]}]
PlayEvents == << Event({"t", "b"}, 0, <<0>>, <<>>),
                Event({"t", "b"}, 1, <<1>>, <<>>) >>

\* {"loop":{"enabled":true,"count":n,"interval":0},"events":[...]}
DocRepeat(n) == Doc({"loop", "events"},
                    LoopObj({"enabled", "count", "interval"}, TRUE, n, 0),
                    PlayEvents)

\* {"loop":{"enabled":true,"count":0,"interval":s},"events":[...]}
DocForever(s) == Doc({"loop", "events"},
                     LoopObj({"enabled", "count", "interval"}, TRUE, 0, s),
                     PlayEvents)

\* {"loop":{"enabled":false,"count":0,"interval":1},"events":[...]}
DocDisabled == Doc({"loop", "events"},
                   LoopObj({"enabled", "count", "interval"}, FALSE, 0, 1),
                   PlayEvents)

\* {"events":[{"t":1000,"b":[0]},{"t":1,"b":[1]}]}: timestamps out of order
DocUnsorted == Doc({"events"}, NoLoop,
                   << Event({"t", "b"}, 1000, <<0>>, <<>>),
                      Event({"t", "b"}, 1, <<1>>, <<>>) >>)

\* the stored macros whose loop policy is played
PolicyDocs == {DocRepeat(n) : n \in 1..MaxCount}
              \cup {DocForever(0), DocForever(1), DocDisabled}

\* {"meta":{"name":"..."},"events":[]}: the tree of a document with a name;
\* the firmware never reads "meta", so the tree leaves its members out
DocMeta == Doc({"meta", "events"}, NoLoop, <<>>)

\* the documents of the model
Docs == {DocEmpty, DocLoop, DocOnce, DocUnsorted} \cup PolicyDocs

(***************************************************************************)
(* JSON text of a document, as JSON.stringify writes it                    *)
(* (ble_transfer.js: const data = JSON.stringify(macroJson)).              *)
(***************************************************************************)
Quote(s) == <<"\"">> \o s \o <<"\"">>

\* the members of an object or array, separated by commas
RECURSIVE Join(_)
Join(parts) == IF parts = <<>> THEN <<>>
               ELSE IF Len(parts) = 1 THEN Head(parts)
               ELSE Head(parts) \o <<",">> \o Join(Tail(parts))

Member(key, text) == Quote(key) \o <<":">> \o text

Obj(members) == <<"{">> \o Join(members) \o <<"}">>

Arr(items) == <<"[">> \o Join(items) \o <<"]">>

\* the members of the keys that are present, in the order they are given
Present(keys, members) == SelectSeq(members, LAMBDA m : m[1] \in keys)

Texts(members) == [i \in 1..Len(members) |-> members[i][2]]

IntsText(ns) == Arr([i \in 1..Len(ns) |-> IntText(ns[i])])

LoopText(l) ==
    Obj(Texts(Present(l.keys,
        << <<"enabled", Member(<<"e", "n", "a", "b", "l", "e", "d">>,
                               IF l.enabled THEN <<"t", "r", "u", "e">>
                               ELSE <<"f", "a", "l", "s", "e">>)>>,
           <<"count", Member(<<"c", "o", "u", "n", "t">>, IntText(l.count))>>,
           <<"interval", Member(<<"i", "n", "t", "e", "r", "v", "a", "l">>,
                                IntText(l.interval))>> >>)))

EventText(e) ==
    Obj(Texts(Present(e.keys,
        << <<"t", Member(<<"t">>, IntText(e.t))>>,
           <<"b", Member(<<"b">>, IntsText(e.b))>>,
           <<"a", Member(<<"a">>, IntsText(e.a))>> >>)))

EventsText(es) == Arr([i \in 1..Len(es) |-> EventText(es[i])])

Text(d) ==
    Obj(Texts(Present(d.keys,
        << <<"loop", Member(<<"l", "o", "o", "p">>, LoopText(d.loop))>>,
           <<"events", Member(<<"e", "v", "e", "n", "t", "s">>, EventsText(d.events))>> >>)))

\* {"meta":{"name":"a...aL:1"},"events":[]} with pad letters a in the name:
\* the text of a document whose name holds L:1 after pad other characters
MetaText(pad) ==
    Obj(<< Member(<<"m", "e", "t", "a">>,
                  Obj(<< Member(<<"n", "a", "m", "e">>,
                                Quote([i \in 1..pad |-> "a"]
                                      \o <<"L", ":", "1">>)) >>)),
           Member(<<"e", "v", "e", "n", "t", "s">>, Arr(<<>>)) >>)

(***************************************************************************)
(* deserializeJson: reads one JSON value from the front of the input and   *)
(* stops there; what follows the value is not looked at.  The texts that   *)
(* parse are the texts of Docs and the texts of the documents with a name; *)
(* every other input of the model is malformed (cut short, or not starting *)
(* with a value) and leaves the document object empty.                     *)
(***************************************************************************)
DocTexts == [d \in Docs |-> Text(d)]

ParsesNamed(buf) ==
    /\ Len(buf) > 2
    /\ buf[2] = "\""
    /\ buf[3] = "m"
    /\ \E pad \in 0..PieceLen : IsPrefix(MetaText(pad), buf)

ParseFails(buf) == /\ ~ \E d \in Docs : IsPrefix(DocTexts[d], buf)
                   /\ ~ ParsesNamed(buf)

ParsedDoc(buf) == IF ParseFails(buf) THEN EmptyDoc
                  ELSE IF ParsesNamed(buf) THEN DocMeta
                  ELSE CHOOSE d \in Docs : IsPrefix(DocTexts[d], buf)

(***************************************************************************)
(* C integer conversions.                                                  *)
(***************************************************************************)
ToUint8(n) == n % 256

ToInt8(n) == IF n % 256 >= 128 THEN (n % 256) - 256 ELSE n % 256

\* (uint32_t)n, kept to its bits 0..29 (the range of the integers of TLC);
\* the code reads bits 0..19 only
ToUint32(n) == n % 1073741824

\* (unsigned int)n as an index: a negative n becomes a value above every length
ToIndex(n) == IF n < 0 THEN 2147483647 + n ELSE n

(***************************************************************************)
(* SwitchControllerHID: the 8 byte report.  report[k + 1] is _report[k].   *)
(***************************************************************************)
HAT_TOP == 0
HAT_TOP_RIGHT == 1
HAT_RIGHT == 2
HAT_BOTTOM_RIGHT == 3
HAT_BOTTOM == 4
HAT_BOTTOM_LEFT == 5
HAT_LEFT == 6
HAT_TOP_LEFT == 7
HAT_CENTER == 8

\* a releaseAll that clears the report and does not centre the hat
ReleaseAll_HatCleared == <<0, 0, 0, 128, 128, 128, 128, 0>>

ReleaseAll == <<0, 0, 8, 128, 128, 128, 128, 0>>

SetButtonMask(r, mask) ==
    [r EXCEPT ![1] = mask % 256, ![2] = (mask \div 256) % 64]

SetHat(r, h) == [r EXCEPT ![3] = h % 16]

SetLeftStickRaw(r, x, y) == [r EXCEPT ![4] = x, ![5] = y]

SetRightStickRaw(r, x, y) == [r EXCEPT ![6] = x, ![7] = y]

\* the byte whose set bits are the members of S
RECURSIVE BitsValue(_)
BitsValue(S) == IF S = {} THEN 0
                ELSE LET i == CHOOSE j \in S : TRUE
                     IN  Pow2(i) + BitsValue(S \ {i})

\* _report[0] |= (mask & 0xFF); _report[1] |= ((mask >> 8) & 0x3F)
Press(r, b) ==
    [r EXCEPT ![1] = BitsValue({i \in 0..7 : Bit(@, i) \/ Bit(b % 256, i)}),
              ![2] = BitsValue({i \in 0..7 :
                                  Bit(@, i) \/ Bit((b \div 256) % 64, i)})]

\* _report[0] &= ~(mask & 0xFF); _report[1] &= ~((mask >> 8) & 0x3F)
Release(r, b) ==
    [r EXCEPT ![1] = BitsValue({i \in 0..7 : Bit(@, i) /\ ~ Bit(b % 256, i)}),
              ![2] = BitsValue({i \in 0..7 :
                                  Bit(@, i) /\ ~ Bit((b \div 256) % 64, i)})]

\* A float argument of a stick setter is held as the number of its halves
\* (2 is 1.0f, -3 is -1.5f): static_cast<uint8_t>((x + 1.0f) * 127.5f) after
\* the clamp to -1.0f..1.0f; the products are exact in a float and the cast
\* drops the fraction
StickByte(h) ==
    LET x == IF h < -2 THEN -2 ELSE IF h > 2 THEN 2 ELSE h
    IN  ((x + 2) * 255) \div 4

SetLeftStick(r, x, y) == [r EXCEPT ![4] = StickByte(x), ![5] = StickByte(y)]

SetRightStick(r, x, y) == [r EXCEPT ![6] = StickByte(x), ![7] = StickByte(y)]

(***************************************************************************)
(* MacroPlayer.                                                            *)
(***************************************************************************)
\* a hat direction that looks at the single directions before the diagonals
HatOf_SingleFirst(buttons) ==
    LET u == Bit(buttons, 16)
        d == Bit(buttons, 17)
        l == Bit(buttons, 18)
        r == Bit(buttons, 19)
    IN  IF u THEN HAT_TOP
        ELSE IF d THEN HAT_BOTTOM
        ELSE IF l THEN HAT_LEFT
        ELSE IF r THEN HAT_RIGHT
        ELSE HAT_CENTER

\* the hat direction updateHID picks from bits 16..19 of the mask
HatOf(buttons) ==
    LET u == Bit(buttons, 16)
        d == Bit(buttons, 17)
        l == Bit(buttons, 18)
        r == Bit(buttons, 19)
    IN  IF u /\ r THEN HAT_TOP_RIGHT
        ELSE IF u /\ l THEN HAT_TOP_LEFT
        ELSE IF d /\ r THEN HAT_BOTTOM_RIGHT
        ELSE IF d /\ l THEN HAT_BOTTOM_LEFT
        ELSE IF u THEN HAT_TOP
        ELSE IF d THEN HAT_BOTTOM
        ELSE IF l THEN HAT_LEFT
        ELSE IF r THEN HAT_RIGHT
        ELSE HAT_CENTER

\* the report updateHID builds; buttons is a uint32_t, lx..ry are int8_t
UpdateHID(buttons, lx, ly, rx, ry) ==
    LET r1 == SetButtonMask(ReleaseAll, buttons % 16384)
        r2 == SetHat(r1, HatOf(buttons))
        r3 == SetLeftStickRaw(r2, ToUint8(lx + 128), ToUint8(ly + 128))
    IN  SetRightStickRaw(r3, ToUint8(rx + 128), ToUint8(ry + 128))

\* buttons |= (1 << b) for every b of the list
RECURSIVE MaskOf(_)
MaskOf(bs) == IF bs = <<>> THEN 0
              ELSE LET m == MaskOf(Tail(bs))
                   IN  IF Bit(m, Head(bs)) THEN m ELSE m + Pow2(Head(bs))

\* axes[i].as<float>(), 0 when the element is absent
Axis(e, i) == IF "a" \in e.keys /\ i <= Len(e.a) THEN e.a[i] ELSE 0

\* (int8_t)(v * 127) for a whole number v
AxisToInt8(v) == ToInt8(v * 127)

\* the report updateFromEvent builds for an event
UpdateFromEvent(e) ==
    UpdateHID(ToUint32(MaskOf(IF "b" \in e.keys THEN e.b ELSE <<>>)),
              AxisToInt8(Axis(e, 1)), AxisToInt8(Axis(e, 2)),
              AxisToInt8(Axis(e, 3)), AxisToInt8(Axis(e, 4)))

\* the report stop() builds
StopReport == UpdateHID(0, 0, 0, 0, 0)

\* (unsigned long)event["t"], 0 when absent
EventTime(e) == IF "t" \in e.keys THEN e.t ELSE 0

\* currentMacro is <<>> for nullptr and <<doc>> for a document object
EventsOf(macro) ==
    IF macro # <<>> /\ "events" \in macro[1].keys THEN macro[1].events ELSE <<>>

\* loadSettings that leaves a setting alone when its field is absent
LoadSettings_KeepsAbsent(p, macro) ==
    IF macro = <<>> THEN p
    ELSE LET loop == IF "loop" \in macro[1].keys THEN macro[1].loop ELSE NoLoop
         IN  [p EXCEPT
                !.loopEnabled = IF "enabled" \in loop.keys THEN loop.enabled ELSE @,
                !.loopCount = IF "count" \in loop.keys THEN loop.count ELSE @,
                !.loopInterval = IF "interval" \in loop.keys THEN loop.interval ELSE @]

LoadSettings(p, macro) ==
    IF macro = <<>> THEN p
    ELSE LET loop == IF "loop" \in macro[1].keys THEN macro[1].loop ELSE NoLoop
         IN  [p EXCEPT
                !.loopEnabled = IF "enabled" \in loop.keys THEN loop.enabled ELSE FALSE,
                !.loopCount = IF "count" \in loop.keys THEN loop.count ELSE 0,
                !.loopInterval = IF "interval" \in loop.keys THEN loop.interval ELSE 0]

\* a start that leaves eventIndex where the last playback stopped
Start_KeepsIndex(p, t) ==
    [p EXCEPT !.startTime = t,
              !.remainingLoops = IF p.loopEnabled
                                 THEN (IF p.loopCount = 0 THEN 0 ELSE p.loopCount)
                                 ELSE 1]

Start(p, t) ==
    [p EXCEPT !.eventIndex = 0,
              !.startTime = t,
              !.remainingLoops = IF p.loopEnabled
                                 THEN (IF p.loopCount = 0 THEN 0 ELSE p.loopCount)
                                 ELSE 1]

InitPlayer == [eventIndex |-> 0, startTime |-> 0, waitStartTime |-> 0,
               remainingLoops |-> 0, loopEnabled |-> FALSE, loopCount |-> 0,
               loopInterval |-> 0]

(***************************************************************************)
(* Arduino String operations used by the live frame parser (indices from   *)
(* 0; the arguments of substring are unsigned int).                        *)
(***************************************************************************)
IndexOf(s, ch, from) ==
    IF from >= Len(s) \/ ~ \E k \in from..(Len(s) - 1) : s[k + 1] = ch THEN -1
    ELSE CHOOSE k \in from..(Len(s) - 1) :
            /\ s[k + 1] = ch
            /\ \A j \in from..(k - 1) : s[j + 1] # ch

Substring(s, left, right) ==
    LET l == ToIndex(left)
        r == ToIndex(right)
        lo == IF l > r THEN r ELSE l
        hi == IF l > r THEN l ELSE r
    IN  IF lo >= Len(s) THEN <<>> ELSE SubSeq(s, lo + 1, Min(hi, Len(s)))

\* the value of the leading decimal digits, 0 when there are none
RECURSIVE DigitsValue(_, _)
DigitsValue(s, acc) ==
    IF s = <<>> \/ ~ IsDigit(Head(s)) THEN acc
    ELSE DigitsValue(Tail(s), 10 * acc + DigitValue(Head(s)))

ToInt(s) == IF s # <<>> /\ Head(s) = "-" THEN 0 - DigitsValue(Tail(s), 0)
            ELSE IF s # <<>> /\ Head(s) = "+" THEN DigitsValue(Tail(s), 0)
            ELSE DigitsValue(s, 0)

(***************************************************************************)
(* Messages of the write characteristic.                                   *)
(***************************************************************************)
P_START == <<"S", "T", "A", "R", "T", ":">>
P_END == <<"E", "N", "D">>

IsLive(value) == Len(value) > 2 /\ value[1] = "L" /\ value[2] = ":"

IsStart(value) == IsPrefix(P_START, value)

IsEnd(value) == value = P_END

\* the report the live frame branch of onWrite builds
LiveReport(value) ==
    LET sVal == CStr(value)
        f == IndexOf(sVal, ":", 2)
        s == IndexOf(sVal, ":", f + 1)
        t == IndexOf(sVal, ":", s + 1)
        fo == IndexOf(sVal, ":", t + 1)
    IN  UpdateHID(ToUint32(ToInt(Substring(sVal, 2, f))),
                  ToInt8(ToInt(Substring(sVal, f + 1, s))),
                  ToInt8(ToInt(Substring(sVal, s + 1, t))),
                  ToInt8(ToInt(Substring(sVal, t + 1, fo))),
                  ToInt8(ToInt(Substring(sVal, fo + 1, Len(sVal)))))

\* rxBuffer += value.c_str()
AppendChunk(buf, value) == buf \o CStr(value)

\* an END branch that does not look at the result of deserializeJson
EndStatus_AlwaysReady(failed) == "READY"

\* the status the END branch sets from the result of deserializeJson
EndStatus(failed) == IF failed THEN "ERROR" ELSE "READY"

\* the header sendMacro writes first
Header(bytes) == P_START \o NatText(Len(bytes))

\* the chunks sendMacro cuts the payload into
Chunks(bytes, size) ==
    [i \in 1..((Len(bytes) + size - 1) \div size) |->
        SubSeq(bytes, (i - 1) * size + 1, Min(i * size, Len(bytes)))]

\* L:5:10:-20:0:0
MsgLive == <<"L", ":", "5", ":", "1", "0", ":", "-", "2", "0", ":", "0", ":", "0">>

MsgStart == Header(DocTexts[DocEmpty])

\* a data message with a zero byte in it
MsgBinary == SubSeq(DocTexts[DocLoop], 1, PieceLen) \o <<NUL, "x">>

\* the indices of the live frames among the messages
LiveMsgs == {3}

\* the documents cut into data messages, and the others
BaseMsgs == <<MsgStart, P_END, MsgLive, MsgBinary>>
            \o Chunks(DocTexts[DocLoop], PieceLen)
            \o <<DocTexts[DocEmpty]>>

\* where the messages of sendMacro for MetaText(pad) begin: the header
\* is at MetaAt(pad), chunk j at MetaAt(pad) + j
MetaAt(pad) == Len(BaseMsgs) + 3 * pad + 1

MetaChunks(pad) == Chunks(MetaText(pad), PieceLen)

\* what sendMacro writes before END for the named documents, three places
\* each (a place past the last chunk is never written)
MetaMsgs ==
    [n \in 1..(3 * (PieceLen + 1)) |->
        LET pad == (n - 1) \div 3
            j == (n - 1) % 3
        IN  IF j = 0 THEN Header(MetaText(pad))
            ELSE IF j <= Len(MetaChunks(pad)) THEN MetaChunks(pad)[j]
            ELSE <<>>]

\* the messages of the model
Msgs == BaseMsgs \o MetaMsgs

(***************************************************************************)
(* State.                                                                  *)
(*   fileStore   /macro.json: whether it exists, and its bytes             *)
(*   connected   a central is connected                                    *)
(*   led         the colour shown                                          *)
(*   now         millis()                                                  *)
(*   last        the step taken last: its operation, the index of the      *)
(*               message written, whether the button was pressed, whether  *)
(*               send() returned true                                      *)
(*   expected    the data messages received since the last START while     *)
(*               TRANSFERRING, joined                                      *)
(*   played      while the status is PLAYING or WAITING: the indices of    *)
(*               the events send() delivered in the pass in progress, in   *)
(*               the order they were delivered, and the number of passes   *)
(*               that were exhausted since start(); FreshPlay otherwise    *)
(*   ending      how far the END branch of onWrite has come (idle when it  *)
(*               is not running), and the document object it found.  The   *)
(*               branch is followed statement by statement in SpecRace     *)
(*               only; everywhere else it is one step and ending is idle   *)
(*   pending     the transition a loop iteration has decided on from the   *)
(*               status it read and has not written yet, and that status   *)
(*               (idle when there is none).  An iteration is followed in   *)
(*               two steps in SpecLost only                                *)
(***************************************************************************)
NoFile == [exists |-> FALSE, data |-> <<>>]

FreshPlay == [sent |-> <<>>, passes |-> 0]

EndIdle == [at |-> "idle", old |-> <<>>]

NoDecision == [at |-> "idle", from |-> "", st |-> <<>>]

\* what played holds once the status is status
Track(status, p) == IF status \in {"PLAYING", "WAITING"} THEN p ELSE FreshPlay

File(bytes) == [exists |-> TRUE, data |-> bytes]

Last(op, msg, pressed, sent) ==
    [op |-> op, msg |-> msg, pressed |-> pressed, sent |-> sent]

Colour(status) ==
    CASE status = "IDLE" -> "yellow"
      [] status = "CONNECTED" -> "blue"
      [] status = "TRANSFERRING" -> "cyan"
      [] status = "READY" -> "green"
      [] status = "PLAYING" -> "magenta"
      [] status = "WAITING" -> "cyan"
      [] status = "ERROR" -> "red"

\* setup(): the stored macro is loaded when the file exists and opens
BootMacro(file, opened) ==
    IF file.exists /\ opened THEN <<ParsedDoc(file.data)>> ELSE <<>>

BootStatus(file, opened) ==
    IF file.exists /\ opened /\ ~ ParseFails(file.data) THEN "READY" ELSE "IDLE"

\* a boot that leaves the loop settings of the player at their defaults
BootPlayer_NoSettings(file, opened) == InitPlayer

BootPlayer(file, opened) ==
    IF file.exists /\ opened /\ ~ ParseFails(file.data)
    THEN LoadSettings(InitPlayer, BootMacro(file, opened))
    ELSE InitPlayer

Boot(file, opened) ==
    /\ currentStatus = BootStatus(file, opened)
    /\ statusChanged = TRUE
    /\ rxBuffer = <<>>
    /\ currentMacro = BootMacro(file, opened)
    /\ player = BootPlayer(file, opened)
    /\ report = ReleaseAll
    /\ fileStore = file
    /\ connected = FALSE
    /\ led = "magenta"
    /\ now = 0
    /\ last = Last("boot", 0, FALSE, FALSE)
    /\ expected = <<>>
    /\ played = FreshPlay
    /\ ending = EndIdle
    /\ pending = NoDecision

\* what /macro.json may hold at the first boot
InitFiles == {NoFile}

Init == \E file \in InitFiles : \E opened \in BOOLEAN : Boot(file, opened)

(***************************************************************************)
(* Transport callbacks.                                                    *)
(***************************************************************************)
\* a connection that does not ask for a refresh of the indicator
OnConnect_NoFlag ==
    /\ ~ connected
    /\ connected' = TRUE
    /\ currentStatus' = "CONNECTED"
    /\ UNCHANGED statusChanged
    /\ last' = Last("connect", 0, FALSE, FALSE)
    /\ played' = FreshPlay
    /\ UNCHANGED <<rxBuffer, currentMacro, player, report, fileStore, led, now, expected, ending,
                   pending>>

OnConnect ==
    /\ ~ connected
    /\ connected' = TRUE
    /\ currentStatus' = "CONNECTED"
    /\ statusChanged' = TRUE
    /\ last' = Last("connect", 0, FALSE, FALSE)
    /\ played' = FreshPlay
    /\ UNCHANGED <<rxBuffer, currentMacro, player, report, fileStore, led, now, expected, ending,
                   pending>>

\* a link loss that always falls back to IDLE
OnDisconnect_AlwaysIdle ==
    /\ connected
    /\ connected' = FALSE
    /\ currentStatus' = "IDLE" /\ statusChanged' = TRUE
    /\ last' = Last("disconnect", 0, FALSE, FALSE)
    /\ played' = Track(currentStatus', played)
    /\ UNCHANGED <<rxBuffer, currentMacro, player, report, fileStore, led, now, expected, ending,
                   pending>>

OnDisconnect ==
    /\ connected
    /\ connected' = FALSE
    /\ IF currentStatus \notin {"PLAYING", "WAITING", "READY"}
       THEN currentStatus' = "IDLE" /\ statusChanged' = TRUE
       ELSE UNCHANGED <<currentStatus, statusChanged>>
    /\ last' = Last("disconnect", 0, FALSE, FALSE)
    /\ played' = Track(currentStatus', played)
    /\ UNCHANGED <<rxBuffer, currentMacro, player, report, fileStore, led, now, expected, ending,
                   pending>>

\* a live frame branch that asks for a refresh of the indicator
OnWriteLive_MarksChanged(i, ready) ==
    /\ report' = LiveReport(Msgs[i])
    /\ statusChanged' = TRUE
    /\ last' = Last("write", i, FALSE, ready)
    /\ UNCHANGED <<currentStatus, rxBuffer, currentMacro,
                   player, fileStore, connected, led, now, expected, played, ending,
                   pending>>

\* a live frame branch that is skipped during playback
OnWriteLive_NotWhilePlaying(i, ready) ==
    /\ report' = IF currentStatus = "PLAYING" THEN report ELSE LiveReport(Msgs[i])
    /\ last' = Last("write", i, FALSE, ready /\ currentStatus # "PLAYING")
    /\ UNCHANGED <<currentStatus, statusChanged, rxBuffer, currentMacro,
                   player, fileStore, connected, led, now, expected, played, ending,
                   pending>>

\* live frame branch: updateHID on the parsed fields, nothing else
OnWriteLive(i, ready) ==
    /\ report' = LiveReport(Msgs[i])
    /\ last' = Last("write", i, FALSE, ready)
    /\ UNCHANGED <<currentStatus, statusChanged, rxBuffer, currentMacro,
                   player, fileStore, connected, led, now, expected, played, ending,
                   pending>>

\* a START branch that keeps what the buffer holds
OnWriteStart_KeepsBuffer(i) ==
    /\ currentStatus' = "TRANSFERRING"
    /\ statusChanged' = TRUE
    /\ last' = Last("write", i, FALSE, FALSE)
    /\ played' = FreshPlay
    /\ UNCHANGED <<rxBuffer, expected, currentMacro, player, report, fileStore,
                   connected, led, now, ending,
                   pending>>

\* a START branch that is ignored once a transfer has failed
OnWriteStart_NotFromError(i) ==
    /\ rxBuffer' = IF currentStatus = "ERROR" THEN rxBuffer ELSE <<>>
    /\ currentStatus' = IF currentStatus = "ERROR" THEN "ERROR" ELSE "TRANSFERRING"
    /\ statusChanged' = TRUE
    /\ expected' = <<>>
    /\ last' = Last("write", i, FALSE, FALSE)
    /\ played' = FreshPlay
    /\ UNCHANGED <<currentMacro, player, report, fileStore,
                   connected, led, now, ending,
                   pending>>

OnWriteStart(i) ==
    /\ rxBuffer' = <<>>
    /\ currentStatus' = "TRANSFERRING"
    /\ statusChanged' = TRUE
    /\ expected' = <<>>
    /\ last' = Last("write", i, FALSE, FALSE)
    /\ played' = FreshPlay
    /\ UNCHANGED <<currentMacro, player, report, fileStore,
                   connected, led, now, ending,
                   pending>>

\* an END branch that keeps the document object once one is there
OnWriteEnd_KeepsLoaded(i, opened) ==
    /\ fileStore' = IF opened THEN File(rxBuffer) ELSE fileStore
    /\ currentMacro' = IF currentMacro = <<>> THEN <<ParsedDoc(rxBuffer)>>
                       ELSE currentMacro
    /\ player' = IF ParseFails(rxBuffer) THEN player
                 ELSE LoadSettings(player, <<ParsedDoc(rxBuffer)>>)
    /\ currentStatus' = EndStatus(ParseFails(rxBuffer))
    /\ statusChanged' = TRUE
    /\ last' = Last("write", i, FALSE, FALSE)
    /\ played' = FreshPlay
    /\ UNCHANGED <<rxBuffer, report, connected, led, now, expected, ending,
                   pending>>

\* END branch: the buffer is written to the file when it opens, then parsed
\* into a fresh document object
OnWriteEnd(i, opened) ==
    /\ fileStore' = IF opened THEN File(rxBuffer) ELSE fileStore
    /\ currentMacro' = <<ParsedDoc(rxBuffer)>>
    /\ player' = IF ParseFails(rxBuffer) THEN player
                 ELSE LoadSettings(player, <<ParsedDoc(rxBuffer)>>)
    /\ currentStatus' = EndStatus(ParseFails(rxBuffer))
    /\ statusChanged' = TRUE
    /\ last' = Last("write", i, FALSE, FALSE)
    /\ played' = FreshPlay
    /\ UNCHANGED <<rxBuffer, report, connected, led, now, expected, ending,
                   pending>>

(***************************************************************************)
(* The END branch, statement by statement.  Between two of its statements  *)
(* the loop task may run.                                                  *)
(***************************************************************************)
EndStatement(at, old, macro, file) ==
    /\ ending' = [at |-> at, old |-> old]
    /\ currentMacro' = macro
    /\ fileStore' = file
    /\ last' = Last("end", 0, FALSE, FALSE)
    /\ UNCHANGED <<currentStatus, statusChanged, rxBuffer, player, report,
                   connected, led, now, expected, played, pending>>

\* the value END arrives; the file is written when it opens
EndWriteFile ==
    /\ connected
    /\ ending.at = "idle"
    /\ \E opened \in BOOLEAN :
          EndStatement("written", currentMacro, currentMacro,
                       IF opened THEN File(rxBuffer) ELSE fileStore)

\* delete currentMacro: the pointer is left dangling, and what is read through
\* it is what the object held or what the allocator made of its memory
EndDelete ==
    /\ ending.at = "written"
    /\ \E macro \in (IF currentMacro = <<>> THEN {<<>>}
                     ELSE {currentMacro, <<EmptyDoc>>}) :
          EndStatement("deleted", ending.old, macro, fileStore)

\* currentMacro = new DynamicJsonDocument(32768)
EndAllocate ==
    /\ ending.at = "deleted"
    /\ EndStatement("allocated", ending.old, <<EmptyDoc>>, fileStore)

\* deserializeJson at work: the document object holds the events read so far
EndParse ==
    /\ ending.at = "allocated"
    /\ LET d == ParsedDoc(rxBuffer)
           partial == IF d.events = <<>> THEN d
                      ELSE [d EXCEPT !.events = SubSeq(@, 1, Len(@) - 1)]
       IN  EndStatement("parsing", ending.old, <<partial>>, fileStore)

\* deserializeJson returns; loadSettings, the status and the changed flag
EndFinish ==
    /\ ending.at = "parsing"
    /\ ending' = EndIdle
    /\ currentMacro' = <<ParsedDoc(rxBuffer)>>
    /\ player' = IF ParseFails(rxBuffer) THEN player
                 ELSE LoadSettings(player, <<ParsedDoc(rxBuffer)>>)
    /\ currentStatus' = EndStatus(ParseFails(rxBuffer))
    /\ statusChanged' = TRUE
    /\ last' = Last("write", 2, FALSE, FALSE)
    /\ played' = FreshPlay
    /\ UNCHANGED <<rxBuffer, report, fileStore, connected, led, now, expected,
                   pending>>

OnWriteData(i) ==
    /\ Len(rxBuffer) + Len(CStr(Msgs[i])) <= MaxBuf
    /\ rxBuffer' = AppendChunk(rxBuffer, Msgs[i])
    /\ expected' = expected \o Msgs[i]
    /\ last' = Last("write", i, FALSE, FALSE)
    /\ UNCHANGED <<currentStatus, statusChanged, currentMacro, player, report,
                   fileStore, connected, led, now, played, ending,
                   pending>>

\* a data branch that does not look at the status
OnWriteIgnored_Appends(i) ==
    /\ Len(rxBuffer) + Len(CStr(Msgs[i])) <= MaxBuf
    /\ rxBuffer' = AppendChunk(rxBuffer, Msgs[i])
    /\ last' = Last("write", i, FALSE, FALSE)
    /\ UNCHANGED <<currentStatus, statusChanged, currentMacro, player,
                   report, fileStore, connected, led, now, expected, played, ending,
                   pending>>

OnWriteIgnored(i) ==
    /\ last' = Last("write", i, FALSE, FALSE)
    /\ UNCHANGED <<currentStatus, statusChanged, rxBuffer, currentMacro, player,
                   report, fileStore, connected, led, now, expected, played, ending,
                   pending>>

\* onWrite, for the messages of the indices in S
OnWriteOf(S) ==
    /\ connected
    /\ \E i \in S :
          IF IsLive(Msgs[i]) THEN \E ready \in BOOLEAN : OnWriteLive(i, ready)
          ELSE IF IsStart(Msgs[i]) THEN OnWriteStart(i)
          ELSE IF IsEnd(Msgs[i]) THEN \E opened \in BOOLEAN : OnWriteEnd(i, opened)
          ELSE IF currentStatus = "TRANSFERRING" THEN OnWriteData(i)
          ELSE OnWriteIgnored(i)

\* the messages written in Spec: all but the text of {"events":[]}
OnWrite == OnWriteOf(1..(Len(BaseMsgs) - 1))

\* START, END and the one data message of {"events":[]}
OnWriteEmptyDoc == OnWriteOf({1, 2, Len(BaseMsgs)})

OnWriteLiveFrame == OnWriteOf(LiveMsgs)

(***************************************************************************)
(* loop(): one iteration of the control loop.  The sections work on a      *)
(* record of the variables an iteration writes; sent tells whether send()  *)
(* returned true in the iteration.                                         *)
(***************************************************************************)
LoopState ==
    [status |-> currentStatus, changed |-> statusChanged, player |-> player,
     report |-> report, led |-> led, sent |-> FALSE, played |-> played]

\* updateHID: the report is rebuilt as r and sent; ready tells whether the
\* transport is ready, which is when send() delivers the report and returns true
Send(st, r, ready) ==
    [st EXCEPT !.report = r, !.sent = ready]

\* status indicator
LedSection(st) ==
    IF st.changed THEN [st EXCEPT !.changed = FALSE, !.led = Colour(st.status)]
    ELSE st

\* a button branch that starts playback with no macro in memory
ButtonSection_NoMacroCheck(st, pressed, ready) ==
    IF ~ pressed THEN st
    ELSE IF st.status \in {"READY", "IDLE", "CONNECTED"}
    THEN [st EXCEPT !.status = "PLAYING",
                    !.changed = TRUE,
                    !.player = Start(@, now),
                    !.played = FreshPlay]
    ELSE IF st.status = "PLAYING"
    THEN Send([st EXCEPT !.status = IF connected THEN "CONNECTED" ELSE "READY",
                         !.changed = TRUE],
              StopReport, ready)
    ELSE st

\* a button branch that stops to READY whether a central is connected or not
ButtonSection_StopsToReady(st, pressed, ready) ==
    IF ~ pressed THEN st
    ELSE IF st.status \in {"READY", "IDLE", "CONNECTED"} /\ currentMacro # <<>>
    THEN [st EXCEPT !.status = "PLAYING",
                    !.changed = TRUE,
                    !.player = Start(@, now),
                    !.played = FreshPlay]
    ELSE IF st.status = "PLAYING"
    THEN Send([st EXCEPT !.status = "READY", !.changed = TRUE],
              StopReport, ready)
    ELSE st

\* a button branch that stops the playback during the wait between two passes
ButtonSection_StopsWhileWaiting(st, pressed, ready) ==
    IF ~ pressed THEN st
    ELSE IF st.status \in {"READY", "IDLE", "CONNECTED"} /\ currentMacro # <<>>
    THEN [st EXCEPT !.status = "PLAYING",
                    !.changed = TRUE,
                    !.player = Start(@, now),
                    !.played = FreshPlay]
    ELSE IF st.status \in {"PLAYING", "WAITING"}
    THEN Send([st EXCEPT !.status = IF connected THEN "CONNECTED" ELSE "READY",
                         !.changed = TRUE],
              StopReport, ready)
    ELSE st

\* a button branch that also cancels a transfer
ButtonSection_CancelsTransfer(st, pressed, ready) ==
    IF ~ pressed THEN st
    ELSE IF st.status \in {"READY", "IDLE", "CONNECTED"} /\ currentMacro # <<>>
    THEN [st EXCEPT !.status = "PLAYING",
                    !.changed = TRUE,
                    !.player = Start(@, now),
                    !.played = FreshPlay]
    ELSE IF st.status = "PLAYING"
    THEN Send([st EXCEPT !.status = IF connected THEN "CONNECTED" ELSE "READY",
                         !.changed = TRUE],
              StopReport, ready)
    ELSE IF st.status = "TRANSFERRING"
    THEN [st EXCEPT !.status = "CONNECTED", !.changed = TRUE]
    ELSE st

\* button A: start or stop playback
ButtonSection(st, pressed, ready) ==
    IF ~ pressed THEN st
    ELSE IF st.status \in {"READY", "IDLE", "CONNECTED"} /\ currentMacro # <<>>
    THEN [st EXCEPT !.status = "PLAYING",
                    !.changed = TRUE,
                    !.player = Start(@, now),
                    !.played = FreshPlay]
    ELSE IF st.status = "PLAYING"
    THEN Send([st EXCEPT !.status = IF connected THEN "CONNECTED" ELSE "READY",
                         !.changed = TRUE],
              StopReport, ready)
    ELSE st

\* the loop policy with its tests given: again tells whether another pass
\* follows, counted whether remainingLoops is decremented
Policy(st, ready, again, counted) ==
    LET s1 == [Send(st, StopReport, ready) EXCEPT !.played.passes = @ + 1]
        p == st.player
        p1 == IF counted THEN [p EXCEPT !.remainingLoops = @ - 1] ELSE p
    IN  IF again
        THEN IF p.loopInterval > 0
             THEN [s1 EXCEPT !.status = "WAITING",
                             !.changed = TRUE,
                             !.player = [p1 EXCEPT !.waitStartTime = now]]
             ELSE [s1 EXCEPT !.player = [p1 EXCEPT !.eventIndex = 0,
                                                   !.startTime = now],
                             !.played.sent = <<>>]
        ELSE [s1 EXCEPT !.status = "READY", !.changed = TRUE]

\* a loop policy that plays once more while remainingLoops is not 0
Exhausted_OneMore(st, ready) ==
    LET p == st.player
    IN  Policy(st, ready,
               p.loopEnabled /\ (p.loopCount = 0 \/ p.remainingLoops > 0),
               p.loopCount > 0)

\* a loop policy that takes the count 0 for no pass left
Exhausted_ZeroStops(st, ready) ==
    LET p == st.player
    IN  Policy(st, ready, p.loopEnabled /\ p.remainingLoops > 1, p.loopCount > 0)

\* a loop policy that does not look at loopEnabled
Exhausted_IgnoresEnabled(st, ready) ==
    LET p == st.player
    IN  Policy(st, ready, p.loopCount = 0 \/ p.remainingLoops > 1, p.loopCount > 0)

\* a loop policy that never decrements remainingLoops
Exhausted_NeverCounts(st, ready) ==
    LET p == st.player
    IN  Policy(st, ready,
               p.loopEnabled /\ (p.loopCount = 0 \/ p.remainingLoops > 1),
               FALSE)

\* the event list is exhausted: neutral report, then the loop policy
Exhausted(st, ready) ==
    LET p == st.player
    IN  Policy(st, ready,
               p.loopEnabled /\ (p.loopCount = 0 \/ p.remainingLoops > 1),
               p.loopCount > 0)

\* the playback branch for an event, with its tests given: due tells whether
\* the event is sent in this tick, advance whether eventIndex moves on
Attempt(st, ready, due, advance) ==
    LET i == st.player.eventIndex
        e == EventsOf(currentMacro)[i + 1]
        s1 == Send(st, UpdateFromEvent(e), ready)
    IN  IF due
        THEN [s1 EXCEPT !.player.eventIndex = IF advance THEN @ + 1 ELSE @,
                        !.played.sent = IF ready THEN Append(@, i) ELSE @]
        ELSE st

\* the time that passed since the pass began
Elapsed(st) == now - st.player.startTime

\* the event at eventIndex
CurrentEvent(st) == EventsOf(currentMacro)[st.player.eventIndex + 1]

\* a playback branch that moves on whatever send() returned
PlayEvent_AlwaysAdvances(st, ready) ==
    Attempt(st, ready, Elapsed(st) >= EventTime(CurrentEvent(st)), TRUE)

\* a playback branch that compares the clock itself with the timestamp
PlayEvent_ClockNotElapsed(st, ready) ==
    Attempt(st, ready, now >= EventTime(CurrentEvent(st)), ready)

\* a playback branch that passes over an event whose time is already behind
PlayEvent_SkipsLate(st, ready) ==
    IF Elapsed(st) > EventTime(CurrentEvent(st))
    THEN [st EXCEPT !.player.eventIndex = @ + 1]
    ELSE Attempt(st, ready, Elapsed(st) >= EventTime(CurrentEvent(st)), ready)

\* the event at eventIndex is sent when its time has come; the index moves on
\* only when send() returned true
PlayEvent(st, ready) ==
    Attempt(st, ready, Elapsed(st) >= EventTime(CurrentEvent(st)), ready)

\* a wait that takes the interval for milliseconds
WaitSection_Milliseconds(st) ==
    IF now - st.player.waitStartTime >= st.player.loopInterval
    THEN [st EXCEPT !.status = "PLAYING",
                    !.changed = TRUE,
                    !.player = [@ EXCEPT !.eventIndex = 0, !.startTime = now],
                    !.played.sent = <<>>]
    ELSE st

\* the wait between two passes ends
WaitSection(st) ==
    IF now - st.player.waitStartTime >= st.player.loopInterval * 1000
    THEN [st EXCEPT !.status = "PLAYING",
                    !.changed = TRUE,
                    !.player = [@ EXCEPT !.eventIndex = 0, !.startTime = now],
                    !.played.sent = <<>>]
    ELSE st

\* a playback branch that takes the list for exhausted at its last event
PlaySection_ExhaustsEarly(st, ready) ==
    IF st.status = "PLAYING" /\ currentMacro # <<>>
    THEN IF st.player.eventIndex + 1 >= Len(EventsOf(currentMacro))
         THEN Exhausted(st, ready)
         ELSE PlayEvent(st, ready)
    ELSE IF st.status = "WAITING" THEN WaitSection(st)
    ELSE st

PlaySection(st, ready) ==
    IF st.status = "PLAYING" /\ currentMacro # <<>>
    THEN IF st.player.eventIndex >= Len(EventsOf(currentMacro))
         THEN Exhausted(st, ready)
         ELSE PlayEvent(st, ready)
    ELSE IF st.status = "WAITING" THEN WaitSection(st)
    ELSE st

\* a loop body that leaves the playback section out of the tick of a press
LoopBody_PressEndsTick(pressed, ready) ==
    IF pressed THEN ButtonSection(LedSection(LoopState), pressed, ready)
    ELSE PlaySection(LedSection(LoopState), ready)

LoopBody(pressed, ready) ==
    PlaySection(ButtonSection(LedSection(LoopState), pressed, ready), ready)

Loop ==
    \E pressed \in BOOLEAN : \E ready \in BOOLEAN :
        \E st \in {LoopBody(pressed, ready)} :
            /\ st.played.passes <= MaxPasses
            /\ currentStatus' = st.status
            /\ statusChanged' = st.changed
            /\ player' = st.player
            /\ report' = st.report
            /\ led' = st.led
            /\ last' = Last("loop", 0, pressed, st.sent)
            /\ played' = Track(st.status, st.played)
            /\ UNCHANGED <<rxBuffer, currentMacro, fileStore, connected, now,
                           expected, ending,
                   pending>>

\* the values millis() is seen to take
TimePoints == {t \in 0..MaxTime : t % 1000 <= MaxFine}

AdvanceTime ==
    \E t \in TimePoints :
        /\ t > now
        /\ now' = t
        /\ last' = Last("time", 0, FALSE, FALSE)
        /\ UNCHANGED <<currentStatus, statusChanged, rxBuffer, currentMacro,
                       player, report, fileStore, connected, led,
                       expected, played, ending,
                   pending>>

\* power cycle: setup() runs again on what the file holds
Reboot ==
    \E opened \in BOOLEAN :
        /\ currentStatus' = BootStatus(fileStore, opened)
        /\ statusChanged' = TRUE
        /\ rxBuffer' = <<>>
        /\ currentMacro' = BootMacro(fileStore, opened)
        /\ player' = BootPlayer(fileStore, opened)
        /\ report' = ReleaseAll
        /\ connected' = FALSE
        /\ led' = "magenta"
        /\ now' = 0
        /\ last' = Last("boot", 0, FALSE, FALSE)
        /\ expected' = <<>>
        /\ played' = FreshPlay
        /\ ending' = EndIdle
        /\ pending' = NoDecision
        /\ UNCHANGED fileStore

(***************************************************************************)
(* Spec: transfers, link events, button presses and power cycles, from the *)
(* first boot on an empty file system.  The clock stands still: the events *)
(* of the document that is transferred are all due at once.                *)
(***************************************************************************)
Next == OnConnect \/ OnDisconnect \/ OnWrite \/ Loop \/ Reboot

Spec == Init /\ [][Next]_vars

(***************************************************************************)
(* SpecPlay: playback of a stored macro as time passes, with link events   *)
(* and live frames; nothing is transferred.                                *)
(***************************************************************************)
PlayFiles == {File(DocTexts[d]) : d \in {DocOnce, DocLoop} \cup PolicyDocs}

InitPlay == \E file \in PlayFiles : Boot(file, TRUE)

NextPlay == OnConnect \/ OnDisconnect \/ OnWriteLiveFrame \/ Loop \/ AdvanceTime

SpecPlay == InitPlay /\ [][NextPlay]_vars

(***************************************************************************)
(* Steps, told by what the step leaves in last.                            *)
(***************************************************************************)
WriteStep == last'.op = "write"

LiveStep == WriteStep /\ IsLive(Msgs[last'.msg])

StartStep == WriteStep /\ ~ IsLive(Msgs[last'.msg]) /\ IsPrefix(P_START, Msgs[last'.msg])

EndStep == WriteStep /\ Msgs[last'.msg] = P_END

OtherStep == WriteStep /\ ~ IsLive(Msgs[last'.msg])
             /\ ~ IsPrefix(P_START, Msgs[last'.msg]) /\ Msgs[last'.msg] # P_END

LoopStep == last'.op = "loop"

LoopSettings(p) == <<p.loopEnabled, p.loopCount, p.loopInterval>>

\* the document whose text the buffer begins with is the one now in memory
HoldsParsed(buf, macro) ==
    \E d \in Docs : IsPrefix(DocTexts[d], buf) /\ macro = <<d>>

(***************************************************************************)
(* C1: an END whose buffer does not parse writes nothing to storage: the   *)
(* file is the same after the END as before it.                            *)
(***************************************************************************)
C1_NoWriteOnParseFailure ==
    [][(EndStep /\ ParseFails(rxBuffer)) => fileStore' = fileStore]_vars

(***************************************************************************)
(* C2: an END whose buffer does not parse leaves the macro in memory and   *)
(* the loop settings of the player as they were.                           *)
(***************************************************************************)
C2_MacroRetainedOnParseFailure ==
    [][(EndStep /\ ParseFails(rxBuffer) /\ currentMacro # <<>>)
        => /\ currentMacro' = currentMacro
           /\ LoopSettings(player') = LoopSettings(player)]_vars

(***************************************************************************)
(* C3: an END sets the status to ERROR exactly when its buffer does not    *)
(* parse, and no other step moves the status to ERROR.                     *)
(***************************************************************************)
C3_ErrorOnlyFromFailedEnd ==
    [][/\ EndStep => (currentStatus' = "ERROR" <=> ParseFails(rxBuffer))
       /\ (currentStatus' = "ERROR" /\ currentStatus # "ERROR")
            => (EndStep /\ ParseFails(rxBuffer))]_vars

C3_Witness ==
    /\ last.op = "write" /\ Msgs[last.msg] = P_END
    /\ ParseFails(rxBuffer)
    /\ currentStatus = "ERROR"

(***************************************************************************)
(* C4 as stated: an END whose buffer parses makes the file exactly the     *)
(* buffer, the macro in memory the parsed document and the status READY.   *)
(***************************************************************************)
C4_Original ==
    [][(EndStep /\ ~ ParseFails(rxBuffer))
        => /\ fileStore' = File(rxBuffer)
           /\ HoldsParsed(rxBuffer, currentMacro')
           /\ currentStatus' = "READY"]_vars

(***************************************************************************)
(* C4 amended: an END whose buffer parses makes the macro in memory the    *)
(* parsed document and the status READY; the file becomes exactly the      *)
(* buffer when it could be opened for writing and keeps what it held when  *)
(* it could not.                                                           *)
(***************************************************************************)
C4_Amended ==
    [][(EndStep /\ ~ ParseFails(rxBuffer))
        => /\ fileStore' = File(rxBuffer) \/ fileStore' = fileStore
           /\ HoldsParsed(rxBuffer, currentMacro')
           /\ currentStatus' = "READY"]_vars

C4_Witness ==
    /\ last.op = "write" /\ Msgs[last.msg] = P_END
    /\ rxBuffer = DocTexts[DocLoop]
    /\ fileStore = File(rxBuffer)
    /\ currentMacro = <<DocLoop>>
    /\ currentStatus = "READY"

(***************************************************************************)
(* SpecLoadSettings: loadSettings applied to a player with any settings    *)
(* and to no macro or to a document with any loop object.                  *)
(***************************************************************************)
LoopObjs ==
    {LoopObj(keys, e, c, i) :
        keys \in SUBSET {"enabled", "count", "interval"},
        e \in BOOLEAN, c \in 0..MaxLoopVal, i \in 0..MaxLoopVal}

\* the loop objects, the value of an absent key being the filler
SettingsDocs ==
    {DocEmpty} \cup
    {Doc({"loop", "events"}, l, <<>>) :
        l \in {o \in LoopObjs : /\ ("enabled" \notin o.keys => o.enabled = FALSE)
                                /\ ("count" \notin o.keys => o.count = 0)
                                /\ ("interval" \notin o.keys => o.interval = 0)}}

InitLoadSettings ==
    /\ currentStatus = "IDLE"
    /\ statusChanged = TRUE
    /\ rxBuffer = <<>>
    /\ currentMacro \in {<<>>} \cup {<<d>> : d \in SettingsDocs}
    /\ \E e \in BOOLEAN : \E c \in 0..MaxLoopVal : \E i \in 0..MaxLoopVal :
          player = [InitPlayer EXCEPT !.loopEnabled = e, !.loopCount = c,
                                      !.loopInterval = i]
    /\ report = ReleaseAll
    /\ fileStore = NoFile
    /\ connected = FALSE
    /\ led = "magenta"
    /\ now = 0
    /\ last = Last("boot", 0, FALSE, FALSE)
    /\ expected = <<>>
    /\ played = FreshPlay
    /\ ending = EndIdle
    /\ pending = NoDecision

ApplyLoadSettings ==
    /\ player' = LoadSettings(player, currentMacro)
    /\ last' = Last("loadSettings", 0, FALSE, FALSE)
    /\ UNCHANGED <<currentStatus, statusChanged, rxBuffer, currentMacro, report,
                   fileStore, connected, led, now, expected, played, ending,
                   pending>>

SpecLoadSettings == InitLoadSettings /\ [][ApplyLoadSettings]_vars

(***************************************************************************)
(* C5: loadSettings sets each loop setting from the loop object of the     *)
(* document, taking enabled = false, count = 0, interval = 0 for a field   *)
(* that is absent (also when the loop object is absent), whatever the      *)
(* settings were before; with no macro it changes nothing.                 *)
(***************************************************************************)
C5_LoadSettingsDefaults ==
    [][last'.op = "loadSettings"
        => IF currentMacro = <<>> THEN player' = player
           ELSE LET d == currentMacro[1]
                    has(k) == "loop" \in d.keys /\ k \in d.loop.keys
                IN  /\ player'.loopEnabled = (has("enabled") /\ d.loop.enabled)
                    /\ player'.loopCount = IF has("count") THEN d.loop.count ELSE 0
                    /\ player'.loopInterval =
                          IF has("interval") THEN d.loop.interval ELSE 0
                    /\ player'.eventIndex = player.eventIndex
                    /\ player'.remainingLoops = player.remainingLoops]_vars

C5_Witness ==
    /\ last.op = "loadSettings"
    /\ currentMacro # <<>>
    /\ "loop" \in currentMacro[1].keys
    /\ currentMacro[1].loop.keys = {"count"}
    /\ currentMacro[1].loop.count = 2
    /\ LoopSettings(player) = <<FALSE, 2, 0>>

(***************************************************************************)
(* C6: when an END is processed the receive buffer is the in-order         *)
(* concatenation of the data messages that arrived after the most recent   *)
(* START while the status was TRANSFERRING, none dropped, doubled or       *)
(* reordered.                                                              *)
(***************************************************************************)
C6_BufferIsConcatenation ==
    [][EndStep => rxBuffer = expected]_vars

(***************************************************************************)
(* C7: a START, in any status, empties the receive buffer and sets the     *)
(* status to TRANSFERRING; the macro in memory and the file stay.          *)
(***************************************************************************)
C7_StartClearsBuffer ==
    [][StartStep
        => /\ rxBuffer' = <<>>
           /\ currentStatus' = "TRANSFERRING"
           /\ currentMacro' = currentMacro
           /\ fileStore' = fileStore]_vars

\* a START has arrived in the middle of a pass of a stored macro
C7_Witness ==
    /\ last.op = "write" /\ IsPrefix(P_START, Msgs[last.msg])
    /\ currentStatus = "TRANSFERRING"
    /\ rxBuffer = <<>>
    /\ currentMacro = <<DocLoop>>
    /\ fileStore.exists
    /\ player.eventIndex = 1

(***************************************************************************)
(* C8: a message that is no live frame, no START and no END, received      *)
(* while the status is not TRANSFERRING, changes nothing: status, changed  *)
(* flag, receive buffer, macro, file, player and report stay.              *)
(***************************************************************************)
C8_OtherMessageIgnored ==
    [][(OtherStep /\ currentStatus # "TRANSFERRING")
        => UNCHANGED <<currentStatus, statusChanged, rxBuffer, currentMacro,
                       fileStore, player, report>>]_vars

\* a data message has arrived during playback
C8_Witness ==
    /\ last.op = "write"
    /\ ~ IsLive(Msgs[last.msg])
    /\ ~ IsPrefix(P_START, Msgs[last.msg])
    /\ Msgs[last.msg] # P_END
    /\ currentStatus = "PLAYING"

(***************************************************************************)
(* C9: a live frame, in any status, leaves the status, the changed flag,   *)
(* the receive buffer, the macro, the file and eventIndex, startTime and   *)
(* remainingLoops of the player as they were.                              *)
(***************************************************************************)
C9_LiveFrameTouchesReportOnly ==
    [][LiveStep
        => /\ UNCHANGED <<currentStatus, statusChanged, rxBuffer, currentMacro,
                          fileStore>>
           /\ player'.eventIndex = player.eventIndex
           /\ player'.startTime = player.startTime
           /\ player'.remainingLoops = player.remainingLoops]_vars

\* a live frame has arrived in the middle of a transfer
C9_Witness ==
    /\ last.op = "write" /\ IsLive(Msgs[last.msg])
    /\ currentStatus = "TRANSFERRING"
    /\ rxBuffer # <<>>
    /\ report # ReleaseAll

(***************************************************************************)
(* C10: a live frame that arrives while the status is PLAYING replaces the *)
(* report by the buttons, hat and sticks of the frame, whatever event the  *)
(* player has scheduled, and leaves the player alone; the control loop     *)
(* then still sends the scheduled event once its time has come, and until  *)
(* then leaves the report of the live frame in place.                      *)
(***************************************************************************)
\* L:5:10:-20:0:0: buttons 0 and 2, hat centred, left stick 138, 108
C10_LiveFrameReport == <<5, 0, 8, 138, 108, 128, 128, 0>>

C10_LiveFrameOverridesPlayback ==
    [][/\ (LiveStep /\ currentStatus = "PLAYING")
            => /\ report' = C10_LiveFrameReport
               /\ player' = player
               /\ currentStatus' = "PLAYING"
       /\ (/\ LoopStep /\ ~ last'.pressed
           /\ last.op = "write" /\ IsLive(Msgs[last.msg])
           /\ currentStatus = "PLAYING"
           /\ player.eventIndex < Len(EventsOf(currentMacro)))
            => LET e == EventsOf(currentMacro)[player.eventIndex + 1]
               IN  IF now - player.startTime >= EventTime(e)
                   THEN /\ report' = UpdateFromEvent(e)
                        /\ player'.eventIndex =
                              player.eventIndex + (IF last'.sent THEN 1 ELSE 0)
                   ELSE /\ report' = report
                        /\ player' = player]_vars

\* a live frame has arrived in the middle of a pass, with the next event due
C10_Witness ==
    /\ last.op = "write" /\ IsLive(Msgs[last.msg])
    /\ currentStatus = "PLAYING"
    /\ report = C10_LiveFrameReport
    /\ player.eventIndex = 1
    /\ Len(EventsOf(currentMacro)) = 2
    /\ now - player.startTime >= EventTime(EventsOf(currentMacro)[2])

(***************************************************************************)
(* Steps of the playback branch.                                           *)
(***************************************************************************)
\* a tick without a button press that finds the status PLAYING
PlayTick == LoopStep /\ ~ last'.pressed /\ currentStatus = "PLAYING"
            /\ currentMacro # <<>>

\* the indices 0 .. n - 1, in order
Indices(n) == [i \in 1..n |-> i - 1]

NumEvents == Len(EventsOf(currentMacro))

\* the event list is not exhausted and the event at eventIndex is due
Due == now - player.startTime >= EventTime(EventsOf(currentMacro)[player.eventIndex + 1])

(***************************************************************************)
(* C11: eventIndex grows only in a tick in which send() delivered the      *)
(* report, and then by one.  A tick of playback that finds event i due     *)
(* builds the report of event i and moves eventIndex to i + 1 exactly when *)
(* send() returned true; after a failed send eventIndex is still i, so the *)
(* next tick builds and sends the report of event i again.                 *)
(***************************************************************************)
C11_AdvanceOnlyOnDelivery ==
    [][/\ player'.eventIndex > player.eventIndex
            => /\ LoopStep /\ last'.sent
               /\ player'.eventIndex = player.eventIndex + 1
       /\ (PlayTick /\ player.eventIndex < NumEvents)
            => /\ player'.eventIndex =
                     player.eventIndex + (IF Due /\ last'.sent THEN 1 ELSE 0)
               /\ Due => report' =
                     UpdateFromEvent(EventsOf(currentMacro)[player.eventIndex + 1])
               /\ ~ Due => ~ last'.sent]_vars

\* the send of the second event has just failed: it is still the one to send
C11_Witness ==
    /\ last.op = "loop" /\ ~ last.pressed /\ ~ last.sent
    /\ currentStatus = "PLAYING"
    /\ played.sent = <<0>>
    /\ player.eventIndex = 1
    /\ report = UpdateFromEvent(EventsOf(currentMacro)[2])
    /\ report # UpdateFromEvent(EventsOf(currentMacro)[1])

(***************************************************************************)
(* C12: in a pass the events are delivered in index order: the events      *)
(* delivered so far are those of the indices 0 .. eventIndex - 1, in that  *)
(* order; a tick of playback leaves eventIndex or adds one to it; and the  *)
(* tick that treats the pass as exhausted finds every event of the list    *)
(* delivered, whichever sends failed.                                      *)
(***************************************************************************)
C12_EventsInIndexOrder ==
    [][/\ currentStatus' \in {"PLAYING", "WAITING"}
            => played'.sent = Indices(player'.eventIndex)
       /\ (PlayTick /\ currentStatus' = "PLAYING"
                    /\ played'.passes = played.passes)
            => /\ player'.eventIndex >= player.eventIndex
               /\ player'.eventIndex <= player.eventIndex + 1
       /\ (PlayTick /\ (\/ currentStatus' \in {"READY", "WAITING"}
                        \/ played'.passes = played.passes + 1))
            => played.sent = Indices(NumEvents)]_vars

\* the third pass has delivered its two events
C12_Witness ==
    /\ currentStatus = "PLAYING"
    /\ played.passes = 2
    /\ played.sent = <<0, 1>>
    /\ NumEvents = 2

(***************************************************************************)
(* C13: an event is delivered only in a tick where now - startTime, the    *)
(* time since the pass began, is at least its timestamp; a tick of         *)
(* playback (no button press) that finds the event at eventIndex not yet   *)
(* due leaves the player and the report alone and sends nothing.           *)
(***************************************************************************)
C13_NeverEarly ==
    [][/\ (LoopStep /\ played'.sent # <<>> /\ played'.sent # played.sent)
            => now - player'.startTime >=
                  EventTime(EventsOf(currentMacro)
                               [played'.sent[Len(played'.sent)] + 1])
       /\ (PlayTick /\ player.eventIndex < NumEvents /\ ~ Due)
            => /\ player' = player
               /\ report' = report
               /\ ~ last'.sent]_vars

\* the event of timestamp 1 was delivered in a pass that began at 1
C13_Witness ==
    /\ last.op = "loop" /\ last.sent
    /\ currentStatus = "PLAYING"
    /\ player.startTime = 1
    /\ played.sent = <<0, 1>>
    /\ EventTime(EventsOf(currentMacro)[2]) = 1
    /\ now >= 1000

(***************************************************************************)
(* C14: with the loop settings enabled, count N >= 1 and interval 0, the   *)
(* status is never WAITING, and a tick that finds the event list exhausted *)
(* finds every event of the pass delivered, sets the status to READY when  *)
(* it is the N-th exhaustion since start() and begins the next pass when   *)
(* it is an earlier one.                                                   *)
(***************************************************************************)
C14_CountedLoop ==
    [][(player.loopEnabled /\ player.loopCount >= 1 /\ player.loopInterval = 0)
        => /\ currentStatus' # "WAITING"
           /\ (PlayTick /\ player.eventIndex >= NumEvents)
                => /\ played.sent = Indices(NumEvents)
                   /\ played.passes + 1 <= player.loopCount
                   /\ IF played.passes + 1 = player.loopCount
                      THEN currentStatus' = "READY"
                      ELSE /\ currentStatus' = "PLAYING"
                           /\ player'.eventIndex = 0
                           /\ player'.startTime = now
                           /\ played'.passes = played.passes + 1]_vars

\* the third pass of a macro of count 3 was exhausted: READY
C14_Witness ==
    /\ last.op = "loop" /\ ~ last.pressed /\ last.sent
    /\ currentStatus = "READY"
    /\ player.loopEnabled /\ player.loopCount = 3 /\ player.loopInterval = 0
    /\ player.remainingLoops = 1
    /\ player.eventIndex = 2

(***************************************************************************)
(* C15: with the loop settings enabled and count 0, a tick that finds the  *)
(* event list exhausted never sets the status to READY: with an interval   *)
(* above 0 it sets the status to WAITING and records the time, with the    *)
(* interval 0 it begins the next pass at once.                             *)
(***************************************************************************)
C15_EndlessLoop ==
    [][(player.loopEnabled /\ player.loopCount = 0)
        => /\ (LoopStep /\ ~ last'.pressed
                        /\ currentStatus \in {"PLAYING", "WAITING"})
                => currentStatus' \in {"PLAYING", "WAITING"}
           /\ (PlayTick /\ player.eventIndex >= NumEvents)
                => IF player.loopInterval > 0
                   THEN /\ currentStatus' = "WAITING"
                        /\ player'.waitStartTime = now
                        /\ player'.eventIndex = player.eventIndex
                   ELSE /\ currentStatus' = "PLAYING"
                        /\ player'.eventIndex = 0
                        /\ player'.startTime = now]_vars

\* the second pass of an endless macro with an interval, after the wait
C15_Witness ==
    /\ player.loopEnabled /\ player.loopCount = 0 /\ player.loopInterval = 1
    /\ currentStatus = "PLAYING"
    /\ played.passes = 1

(***************************************************************************)
(* C16: with looping disabled, whatever the count and the interval, the    *)
(* status is never WAITING and the first tick that finds the event list    *)
(* exhausted finds every event delivered and sets the status to READY.     *)
(***************************************************************************)
C16_NoLoop ==
    [][(~ player.loopEnabled)
        => /\ currentStatus' # "WAITING"
           /\ (PlayTick /\ player.eventIndex >= NumEvents)
                => /\ played.passes = 0
                   /\ played.sent = Indices(NumEvents)
                   /\ currentStatus' = "READY"]_vars

\* a macro with enabled false, count 0 and interval 1 was played once: READY
C16_Witness ==
    /\ last.op = "loop" /\ ~ last.pressed /\ last.sent
    /\ currentStatus = "READY"
    /\ ~ player.loopEnabled /\ player.loopCount = 0 /\ player.loopInterval = 1
    /\ player.eventIndex = 2

\* the wait between two passes is over
WaitOver == now - player.waitStartTime >= player.loopInterval * 1000

(***************************************************************************)
(* C17 as stated: the status goes from WAITING to PLAYING only in a tick   *)
(* where now - waitStartTime >= interval * 1000, which sets eventIndex to  *)
(* 0 and startTime to now; before that a tick in WAITING changes nothing   *)
(* and sends no report.                                                    *)
(***************************************************************************)
C17_Original ==
    [][/\ (currentStatus = "WAITING" /\ currentStatus' = "PLAYING")
            => /\ LoopStep /\ WaitOver
               /\ player'.eventIndex = 0
               /\ player'.startTime = now
       /\ (LoopStep /\ currentStatus = "WAITING" /\ ~ WaitOver)
            => /\ UNCHANGED <<currentStatus, statusChanged, rxBuffer,
                              currentMacro, player, report, fileStore,
                              connected, led, now>>
               /\ ~ last'.sent]_vars

(***************************************************************************)
(* C17 amended: the status goes from WAITING to PLAYING only in a tick     *)
(* where now - waitStartTime >= interval * 1000, which sets eventIndex to  *)
(* 0 and startTime to now; before that a tick in WAITING leaves the        *)
(* status, the player and the report alone and sends no report: all it     *)
(* does is the refresh of the indicator when the changed flag is set.      *)
(***************************************************************************)
C17_Amended ==
    [][/\ (currentStatus = "WAITING" /\ currentStatus' = "PLAYING")
            => /\ LoopStep /\ WaitOver
               /\ player'.eventIndex = 0
               /\ player'.startTime = now
       /\ (LoopStep /\ currentStatus = "WAITING" /\ ~ WaitOver)
            => /\ UNCHANGED <<currentStatus, rxBuffer, currentMacro, player,
                              report, fileStore, connected, now>>
               /\ statusChanged' = FALSE
               /\ led' = IF statusChanged THEN Colour("WAITING") ELSE led
               /\ ~ last'.sent]_vars

\* the wait of one second is over and the next pass has begun
C17_Witness ==
    /\ last.op = "loop"
    /\ currentStatus = "PLAYING"
    /\ played.passes >= 1 /\ played.sent = <<>>
    /\ player.loopInterval = 1
    /\ player.eventIndex = 0
    /\ player.startTime = now
    /\ now - player.waitStartTime >= 1000

C19_Original ==
    [][(LoopStep /\ last'.pressed /\ currentStatus = "PLAYING")
        => /\ currentStatus' = "READY"
           /\ report' = StopReport
           /\ player' = player]_vars

(***************************************************************************)
(* C19 amended: a tick with a button press that finds the status PLAYING   *)
(* stops playback (the neutral report is built and sent, the player is     *)
(* left as it is) and sets the status to CONNECTED when a central is       *)
(* connected and to READY when none is.                                    *)
(***************************************************************************)
C19_Amended ==
    [][(LoopStep /\ last'.pressed /\ currentStatus = "PLAYING")
        => /\ currentStatus' = IF connected THEN "CONNECTED" ELSE "READY"
           /\ report' = StopReport
           /\ player' = player]_vars

\* playback was stopped by the button with a central connected
C19_Witness ==
    /\ last.op = "loop" /\ last.pressed
    /\ connected
    /\ currentStatus = "CONNECTED"
    /\ report = StopReport
    /\ player.eventIndex = 1

(***************************************************************************)
(* C20: a link loss leaves the status as it is when it is PLAYING, WAITING *)
(* or READY, and the player with it, and sets the status to IDLE when it   *)
(* is IDLE, CONNECTED, TRANSFERRING or ERROR.                              *)
(***************************************************************************)
C20_LinkLossKeepsPlayback ==
    [][last'.op = "disconnect"
        => IF currentStatus \in {"PLAYING", "WAITING", "READY"}
           THEN /\ currentStatus' = currentStatus
                /\ player' = player
                /\ report' = report
           ELSE currentStatus' = "IDLE"]_vars

\* the link was lost in the middle of a pass
C20_Witness ==
    /\ last.op = "disconnect"
    /\ currentStatus = "PLAYING"
    /\ player.eventIndex = 1
    /\ ~ connected

(***************************************************************************)
(* C21: every step that changes the status sets the changed flag; the flag *)
(* is cleared only by a tick of the loop, which in that step shows the     *)
(* colour of the status it found; the colour shown changes in no other     *)
(* step but a boot; and whenever the flag is clear the colour shown is the *)
(* colour of the current status.                                           *)
(***************************************************************************)
C21_FlagFollowsStatus ==
    [][/\ currentStatus' # currentStatus => statusChanged'
       /\ (statusChanged /\ ~ statusChanged')
            => LoopStep /\ led' = Colour(currentStatus)
       /\ (LoopStep /\ statusChanged) => led' = Colour(currentStatus)
       /\ led' # led => (LoopStep /\ statusChanged) \/ last'.op = "boot"
       /\ ~ statusChanged' => led' = Colour(currentStatus')]_vars

\* a tick refreshed the indicator after a failed END
C21_Witness ==
    /\ last.op = "loop"
    /\ ~ statusChanged
    /\ currentStatus = "ERROR"
    /\ led = "red"

(***************************************************************************)
(* C22 as stated: after a boot the status is READY exactly when the file   *)
(* exists and parses; otherwise the status is IDLE and currentMacro is     *)
(* null, so that the button does not start a playback.                     *)
(***************************************************************************)
C22_BootStatus ==
    last.op = "boot"
        => /\ currentStatus = "READY"
                <=> (fileStore.exists /\ ~ ParseFails(fileStore.data))
           /\ currentStatus # "READY"
                => currentStatus = "IDLE" /\ currentMacro = <<>>

\* the macro an END committed: the buffer parsed, and the document object
\* holds what it parsed to
Committed ==
    /\ ~ ParseFails(rxBuffer)
    /\ currentMacro = <<ParsedDoc(rxBuffer)>>
    /\ currentStatus \notin {"TRANSFERRING", "ERROR"}

\* the next state holds the events and the loop settings of this one
SameMacro ==
    /\ currentMacro' = currentMacro
    /\ LoopSettings(player') = LoopSettings(player)

(***************************************************************************)
(* C23 as stated: a reboot that finds a macro committed by an END leaves   *)
(* the status READY and the events and the loop settings that were loaded. *)
(***************************************************************************)
C23_Original ==
    [][(last'.op = "boot" /\ Committed)
        => currentStatus' = "READY" /\ SameMacro]_vars

(***************************************************************************)
(* C23 amended: a reboot that finds a macro committed by an END, and the   *)
(* file holding the bytes of that END, leaves the status READY and the     *)
(* events and the loop settings that were loaded, unless the file does not *)
(* open at the boot: then the status is IDLE and no macro is loaded.  A    *)
(* link loss changes neither the file nor the macro nor the loop settings. *)
(***************************************************************************)
C23_Amended ==
    [][/\ (last'.op = "boot" /\ Committed /\ fileStore = File(rxBuffer))
            => \/ currentStatus' = "READY" /\ SameMacro
               \/ currentStatus' = "IDLE" /\ currentMacro' = <<>>
       /\ last'.op = "disconnect"
            => SameMacro /\ fileStore' = fileStore /\ rxBuffer' = rxBuffer]_vars

\* the transferred document was loaded again by a boot
C23_Witness ==
    /\ last.op = "boot"
    /\ currentStatus = "READY"
    /\ currentMacro = <<DocLoop>>
    /\ LoopSettings(player) = <<TRUE, 2, 1>>
    /\ fileStore = File(DocTexts[DocLoop])

(***************************************************************************)
(* SpecHID: the calls of SwitchControllerHID on one report, from the       *)
(* report the constructor leaves.  last holds the call made last and its   *)
(* arguments (for releaseAll, the report it found); the playback path is   *)
(* updateFromEvent on an event.                                            *)
(***************************************************************************)
\* the float arguments of the stick setters: -1.5f, -1.0f, 0.0f, 1.0f
HidFloats == {-3, -2, 0, 2}

\* the arguments of the raw stick setters
HidRaws == {0, 255}

HidCall(op, args, sent, r) ==
    /\ report' = r
    /\ last' = Last(op, args, FALSE, sent)
    /\ UNCHANGED <<currentStatus, statusChanged, rxBuffer, currentMacro, player,
                   fileStore, connected, led, now, expected, played, ending,
                   pending>>

\* press(Button::Y), press(Button::HOME)
HidPress ==
    \E b \in {1, 4096} : HidCall("press", <<b>>, FALSE, Press(report, b))

\* release(Button::Y), release(Button::HOME)
HidRelease ==
    \E b \in {1, 4096} : HidCall("release", <<b>>, FALSE, Release(report, b))

HidSetButtonMask ==
    \E m \in {0, 65535} :
        HidCall("setButtonMask", <<m>>, FALSE, SetButtonMask(report, m))

HidSetHat ==
    \E h \in {HAT_TOP, HAT_CENTER} : HidCall("setHat", <<h>>, FALSE, SetHat(report, h))

HidSetLeftStick ==
    \E x \in HidFloats : \E y \in HidFloats :
        HidCall("setLeftStick", <<x, y>>, FALSE, SetLeftStick(report, x, y))

HidSetRightStick ==
    \E x \in HidFloats : \E y \in HidFloats :
        HidCall("setRightStick", <<x, y>>, FALSE, SetRightStick(report, x, y))

HidSetLeftStickRaw ==
    \E x \in HidRaws : \E y \in HidRaws :
        HidCall("setLeftStickRaw", <<x, y>>, FALSE, SetLeftStickRaw(report, x, y))

HidSetRightStickRaw ==
    \E x \in HidRaws : \E y \in HidRaws :
        HidCall("setRightStickRaw", <<x, y>>, FALSE, SetRightStickRaw(report, x, y))

\* releaseAll() followed by send()
HidReleaseAllSend ==
    \E ready \in BOOLEAN : HidCall("releaseAll", report, ready, ReleaseAll)

HidUpdateFromEvent ==
    \E b \in {<<>>, <<2, 16>>} : \E a \in {<<1, -1, 0, 0>>, <<0, 0, -1, 1>>} :
        \E ready \in BOOLEAN :
            HidCall("updateFromEvent", a, ready,
                    UpdateFromEvent(Event({"b", "a"}, 0, b, a)))

NextHID ==
    \/ HidPress \/ HidRelease \/ HidSetButtonMask \/ HidSetHat
    \/ HidSetLeftStick \/ HidSetRightStick
    \/ HidSetLeftStickRaw \/ HidSetRightStickRaw
    \/ HidReleaseAllSend \/ HidUpdateFromEvent

SpecHID == Boot(NoFile, FALSE) /\ [][NextHID]_vars

(***************************************************************************)
(* C24: whatever the calls made before, the report that releaseAll()       *)
(* followed by send() hands to the transport has no button set, the hat    *)
(* centred (8), the four stick bytes at 128 and the vendor byte 0.         *)
(***************************************************************************)
C24_ReleaseAllIsNeutral ==
    [][last'.op = "releaseAll"
        => /\ report'[1] = 0 /\ report'[2] = 0
           /\ report'[3] = 8
           /\ \A k \in 4..7 : report'[k] = 128
           /\ report'[8] = 0
           /\ Len(report') = 8]_vars

\* releaseAll and a successful send on a report with every field changed
C24_Witness ==
    /\ last.op = "releaseAll" /\ last.sent
    /\ last.msg[1] = 254 /\ last.msg[2] = 63
    /\ last.msg[3] = 0
    /\ \A k \in 4..7 : last.msg[k] \notin {128}
    /\ report = <<0, 0, 8, 128, 128, 128, 128, 0>>

\* the bytes the claim allows for a stick value given in halves
ClaimedByte(h) ==
    CASE h = 2 -> {255}
      [] h = -2 -> {0}
      [] h = 0 -> {127, 128}
      [] OTHER -> 0..255

(***************************************************************************)
(* C25 as stated: a stick value of 1.0 becomes the byte 255, -1.0 the byte *)
(* 0 and 0.0 the byte 127 or 128, by the float setters and by the playback *)
(* path (updateFromEvent, which goes through the raw setters).             *)
(***************************************************************************)
C25_StickBytes ==
    [][/\ last'.op = "setLeftStick"
            => \A k \in 1..2 : report'[3 + k] \in ClaimedByte(last'.msg[k])
       /\ last'.op = "setRightStick"
            => \A k \in 1..2 : report'[5 + k] \in ClaimedByte(last'.msg[k])
       /\ last'.op = "updateFromEvent"
            => \A k \in 1..4 : report'[3 + k] \in ClaimedByte(2 * last'.msg[k])]_vars

(***************************************************************************)
(* SpecEmpty: as Spec, with the document {"events":[]} for the one that is *)
(* transferred.                                                            *)
(***************************************************************************)
NextEmpty == OnConnect \/ OnDisconnect \/ OnWriteEmptyDoc \/ Loop \/ Reboot

SpecEmpty == Init /\ [][NextEmpty]_vars

(***************************************************************************)
(* C26: an END that finds the status TRANSFERRING and the buffer holding   *)
(* {"events":[]} sets the status to READY with that document loaded and    *)
(* looping disabled; a tick with a button press that finds that document   *)
(* loaded, looping disabled and the status READY, IDLE or CONNECTED ends   *)
(* with the status READY again, the neutral report in the report buffer,   *)
(* eventIndex 0 and no event delivered.                                    *)
(***************************************************************************)
C26_EmptyMacro ==
    [][/\ (EndStep /\ currentStatus = "TRANSFERRING"
                   /\ rxBuffer = DocTexts[DocEmpty])
            => /\ currentStatus' = "READY"
               /\ currentMacro' = <<DocEmpty>>
               /\ LoopSettings(player') = <<FALSE, 0, 0>>
       /\ (LoopStep /\ last'.pressed
                    /\ currentStatus \in {"READY", "IDLE", "CONNECTED"}
                    /\ currentMacro = <<DocEmpty>>
                    /\ ~ player.loopEnabled)
            => /\ currentStatus' = "READY"
               /\ statusChanged'
               /\ report' = <<0, 0, 8, 128, 128, 128, 128, 0>>
               /\ player'.eventIndex = 0
               /\ played' = FreshPlay]_vars

\* the empty macro was transferred, started by the button and was exhausted
\* in the tick of the press
C26_Witness ==
    /\ last.op = "loop" /\ last.pressed /\ last.sent
    /\ currentStatus = "READY"
    /\ statusChanged
    /\ rxBuffer = DocTexts[DocEmpty]
    /\ currentMacro = <<DocEmpty>>
    /\ fileStore = File(DocTexts[DocEmpty])
    /\ player.remainingLoops = 1

\* a tick in which the button starts a playback
ButtonStart ==
    /\ LoopStep /\ last'.pressed
    /\ currentStatus \in {"READY", "IDLE", "CONNECTED"}
    /\ currentMacro # <<>>

(***************************************************************************)
(* C29: a tick in which the button starts a playback sets startTime to the *)
(* time of the tick and remainingLoops to loopCount when looping is        *)
(* enabled with a count above 0, to 0 when it is enabled with the count 0  *)
(* and to 1 when it is disabled; whatever eventIndex was, the tick ends    *)
(* with eventIndex 0, or with event 0 delivered and eventIndex 1.          *)
(***************************************************************************)
C29_StartResets ==
    [][ButtonStart
        => /\ currentStatus' = "PLAYING"
           /\ player'.startTime = now
           /\ player'.remainingLoops
                = IF player.loopEnabled
                  THEN (IF player.loopCount > 0 THEN player.loopCount ELSE 0)
                  ELSE 1
           /\ \/ player'.eventIndex = 0 /\ played'.sent = <<>>
              \/ player'.eventIndex = 1 /\ played'.sent = <<0>>]_vars

\* a pass was completed at time 1 (eventIndex 2, waiting), a connection set
\* the status to CONNECTED and the button started a new playback at once
C29_Witness ==
    /\ last.op = "loop" /\ last.pressed
    /\ currentStatus = "PLAYING"
    /\ currentMacro = <<DocForever(1)>>
    /\ now = 1
    /\ player.waitStartTime = 1
    /\ player.startTime = 1
    /\ player.eventIndex = 0
    /\ player.remainingLoops = 0

(***************************************************************************)
(* C30 as stated: when a tick ends a playback in which an event report was *)
(* delivered, by exhaustion or by the button, the neutral report has been  *)
(* delivered to the host in that tick, whether the transport was ready or  *)
(* not.                                                                    *)
(***************************************************************************)
C30_NeutralDelivered ==
    [][(/\ LoopStep
        /\ currentStatus = "PLAYING"
        /\ played.sent # <<>>
        /\ currentStatus' \notin {"PLAYING", "WAITING"})
        => report' = StopReport /\ last'.sent]_vars

\* the data messages received since the START were the pieces of the text of
\* DocLoop, in order, and nothing ended the transfer
TransferComplete ==
    /\ currentStatus = "TRANSFERRING"
    /\ expected = DocTexts[DocLoop]
    /\ rxBuffer = expected

RaceConnect == ending.at = "idle" /\ OnConnect

RaceDisconnect == ending.at = "idle" /\ OnDisconnect

\* START and the data messages of DocLoop
RaceWrite == ending.at = "idle" /\ OnWriteOf({1} \cup (5..(Len(BaseMsgs) - 1)))

NextRace ==
    \/ RaceConnect \/ RaceDisconnect \/ RaceWrite
    \/ EndWriteFile \/ EndDelete \/ EndAllocate \/ EndParse \/ EndFinish
    \/ Loop

SpecRace == Boot(File(DocTexts[DocOnce]), TRUE) /\ [][NextRace]_vars

\* a tick whose playback section reads the document through currentMacro
TickReadsMacro ==
    /\ LoopStep
    /\ currentMacro # <<>>
    /\ IF last'.pressed THEN currentStatus \in {"READY", "IDLE", "CONNECTED"}
       ELSE currentStatus = "PLAYING"

(***************************************************************************)
(* C27 as stated: a tick that reads the document while the END branch is   *)
(* running reads the document the branch found or the document the buffer  *)
(* parses to, whole, and never an object that was deleted.                 *)
(***************************************************************************)
C27_TickSeesWholeDocument ==
    [][(TickReadsMacro /\ ending.at # "idle")
        => /\ ending.at # "deleted"
           /\ currentMacro \in {ending.old, <<ParsedDoc(rxBuffer)>>}]_vars

(***************************************************************************)
(* SpecMask: updateHID on button masks: every combination of the bits 16   *)
(* to 19, with no button, button 0 or the buttons 0 to 13, and with no     *)
(* other bit, the bits 14 and 15 or the bit 20.  last holds the mask.      *)
(***************************************************************************)
HidUpdateHID ==
    \E d \in 0..15 : \E lo \in {0, 1, 16383} : \E hi \in {0, 49152, 1048576} :
        \E ready \in BOOLEAN :
            HidCall("updateHID", <<d * 65536 + lo + hi>>, ready,
                    UpdateHID(d * 65536 + lo + hi, 0, 0, 0, 0))

SpecMask == Boot(NoFile, FALSE) /\ [][HidUpdateHID]_vars

\* the directions set in a mask: up, down, left, right are the bits 16 to 19
Directions(mask) == {i \in 16..19 : Bit(mask, i)}

(***************************************************************************)
(* C31: the report updateHID builds for a mask has a hat value in 0..8:    *)
(* the diagonal for two adjacent directions, the direction for a single    *)
(* one, CENTER (8) for none; its two button bytes are the bits 0 to 7 and  *)
(* 8 to 13 of the mask, and no other bit of the mask shows anywhere in the *)
(* report.                                                                 *)
(***************************************************************************)
C31_HatAndButtons ==
    [][last'.op = "updateHID"
        => LET mask == last'.msg[1]
               dirs == Directions(mask)
           IN  /\ report'[3] \in 0..8
               /\ dirs = {} => report'[3] = 8
               /\ dirs = {16} => report'[3] = 0
               /\ dirs = {16, 19} => report'[3] = 1
               /\ dirs = {19} => report'[3] = 2
               /\ dirs = {17, 19} => report'[3] = 3
               /\ dirs = {17} => report'[3] = 4
               /\ dirs = {17, 18} => report'[3] = 5
               /\ dirs = {18} => report'[3] = 6
               /\ dirs = {16, 18} => report'[3] = 7
               /\ report'[1] = mask % 256
               /\ report'[2] = (mask \div 256) % 64
               /\ \A k \in 4..7 : report'[k] = 128
               /\ report'[8] = 0]_vars

\* up and right with the buttons 0 to 13 and the bits 14 and 15 set
C31_Witness ==
    /\ last.op = "updateHID"
    /\ last.msg = <<9 * 65536 + 16383 + 49152>>
    /\ report = <<255, 63, 1, 128, 128, 128, 128, 0>>

(***************************************************************************)
(* SpecStall: the device boots with DocOnce stored; START, a live frame    *)
(* and the data message of {"events":[]} are written and no END, the link  *)
(* comes and goes, the loop ticks and the clock moves on.                  *)
(***************************************************************************)
NextStall ==
    \/ OnConnect \/ OnDisconnect \/ OnWriteOf({1, 3, Len(BaseMsgs)})
    \/ Loop \/ AdvanceTime

SpecStall == Boot(File(DocTexts[DocOnce]), TRUE) /\ [][NextStall]_vars

(***************************************************************************)
(* C32 as stated: a step that finds the status TRANSFERRING and is not the *)
(* arrival of END leaves the status TRANSFERRING.                          *)
(***************************************************************************)
C32_Original ==
    [][(currentStatus = "TRANSFERRING" /\ ~ EndStep)
        => currentStatus' = "TRANSFERRING"]_vars

(***************************************************************************)
(* C32 amended: a step that finds the status TRANSFERRING and is neither   *)
(* the arrival of END nor the loss of the link leaves the status           *)
(* TRANSFERRING, whatever the clock shows; the loss of the link sets the   *)
(* status to IDLE.                                                         *)
(***************************************************************************)
C32_Amended ==
    [][currentStatus = "TRANSFERRING"
        => /\ (~ EndStep /\ last'.op # "disconnect")
                => currentStatus' = "TRANSFERRING"
           /\ last'.op = "disconnect" => currentStatus' = "IDLE"]_vars

\* a second past the START, with data received, a tick with a button press
\* found the status TRANSFERRING and left it
C32_Witness ==
    /\ last.op = "loop" /\ last.pressed
    /\ currentStatus = "TRANSFERRING"
    /\ ~ statusChanged
    /\ now > 1000
    /\ rxBuffer = DocTexts[DocEmpty]
    /\ currentMacro = <<DocOnce>>

(***************************************************************************)
(* SpecUnsorted: as SpecPlay, for a stored macro whose second event has a  *)
(* lower timestamp than its first.                                         *)
(***************************************************************************)
SpecUnsorted == Boot(File(DocTexts[DocUnsorted]), TRUE) /\ [][NextPlay]_vars

\* a tick of playback that reaches an event whose timestamp is below the one
\* of the event before it
ReachesEarlier ==
    /\ PlayTick
    /\ player.eventIndex \in 1..(NumEvents - 1)
    /\ EventTime(EventsOf(currentMacro)[player.eventIndex + 1])
         < EventTime(EventsOf(currentMacro)[player.eventIndex])

(***************************************************************************)
(* C33 as stated: a tick of playback that reaches an event whose timestamp *)
(* is below the one of the event before it passes over the event:          *)
(* eventIndex moves on and the event is not sent.                          *)
(***************************************************************************)
C33_Original ==
    [][ReachesEarlier
        => /\ player'.eventIndex = player.eventIndex + 1
           /\ played'.sent = played.sent
           /\ ~ last'.sent]_vars

(***************************************************************************)
(* C33 amended: the events are taken in the order of the list, whatever    *)
(* their timestamps.  A tick of playback that reaches an event whose       *)
(* timestamp is below the one of the event before it finds the event due,  *)
(* builds its report and sends it; eventIndex moves on exactly when the    *)
(* send delivered the report.  The tick that finds the list exhausted      *)
(* finds every event delivered: none is skipped.                           *)
(***************************************************************************)
C33_Amended ==
    [][/\ ReachesEarlier
            => /\ Due
               /\ report' = UpdateFromEvent(EventsOf(currentMacro)[player.eventIndex + 1])
               /\ IF last'.sent
                  THEN /\ player'.eventIndex = player.eventIndex + 1
                       /\ played'.sent = Append(played.sent, player.eventIndex)
                  ELSE /\ player'.eventIndex = player.eventIndex
                       /\ played'.sent = played.sent
       /\ (PlayTick /\ currentStatus' = "READY")
            => played.sent = Indices(NumEvents)]_vars

\* the event of timestamp 1 was delivered after the one of timestamp 1000
C33_Witness ==
    /\ last.op = "loop" /\ last.sent
    /\ currentStatus = "PLAYING"
    /\ currentMacro = <<DocUnsorted>>
    /\ played.sent = <<0, 1>>
    /\ player.eventIndex = 2
    /\ now - player.startTime >= 1000

(***************************************************************************)
(* C36 as stated: a connection that finds the status PLAYING or WAITING    *)
(* leaves the status as it is.                                             *)
(***************************************************************************)
C36_ConnectKeepsPlayback ==
    [][(last'.op = "connect" /\ currentStatus \in {"PLAYING", "WAITING"})
        => currentStatus' = currentStatus]_vars

(***************************************************************************)
(* C37 as stated: a step that takes the status out of PLAYING after an     *)
(* event report was delivered leaves the neutral report in the report      *)
(* buffer, delivered to the host in that step.                             *)
(***************************************************************************)
C37_NeutralOnLeavingPlaying ==
    [][(/\ currentStatus = "PLAYING"
        /\ played.sent # <<>>
        /\ currentStatus' # "PLAYING"
        /\ last'.op # "boot")
        => /\ report' = StopReport
           /\ last'.op = "loop" /\ last'.sent]_vars

\* the document object holds a document that parsed
ParsedMacro == currentMacro # <<>> /\ currentMacro # <<EmptyDoc>>

(***************************************************************************)
(* C38 as stated: the status is PLAYING or WAITING only with a document    *)
(* that parsed in memory, and a tick with a button press that finds no     *)
(* such document starts nothing: it leaves the status and the player as    *)
(* they are and sends no report.                                           *)
(***************************************************************************)
C38_PlaysOnlyParsed ==
    [][/\ currentStatus' \in {"PLAYING", "WAITING"} => ParsedMacro'
       /\ (LoopStep /\ last'.pressed /\ ~ ParsedMacro
                    /\ currentStatus \notin {"PLAYING", "WAITING"})
            => /\ currentStatus' = currentStatus
               /\ player' = player
               /\ ~ last'.sent]_vars

(***************************************************************************)
(* C40: a tick with a button press that finds the status WAITING does what *)
(* a tick without a press does: before the interval has elapsed it leaves  *)
(* the status, the player and the report as they are and sends nothing;    *)
(* once the interval has elapsed it sets the status to PLAYING, eventIndex *)
(* to 0 and startTime to the time of the tick.                             *)
(***************************************************************************)
C40_PressWhileWaiting ==
    [][(LoopStep /\ last'.pressed /\ currentStatus = "WAITING")
        => IF WaitOver
           THEN /\ currentStatus' = "PLAYING"
                /\ player' = [player EXCEPT !.eventIndex = 0, !.startTime = now]
                /\ report' = report
                /\ ~ last'.sent
           ELSE /\ currentStatus' = "WAITING"
                /\ player' = player
                /\ report' = report
                /\ ~ last'.sent]_vars

\* the button was pressed during the wait, which goes on
C40_Witness ==
    /\ last.op = "loop" /\ last.pressed
    /\ currentStatus = "WAITING"
    /\ played.passes = 1
    /\ now - player.waitStartTime < player.loopInterval * 1000

(***************************************************************************)
(* SpecFinish: a stored macro with looping disabled or a finite count is   *)
(* started by the button at time 0 and then left alone: no link event, no  *)
(* write, no further press.  The clock of the model ends at MaxTime, so it *)
(* moves, to its next point, only when a tick with the transport ready has *)
(* nothing to do; every playback then ends below MaxTime.  Ticks keep      *)
(* coming, the clock keeps moving, and a send that is attempted again and  *)
(* again succeeds in the end.                                              *)
(***************************************************************************)
StartTick == now = 0 /\ currentStatus = "READY" /\ Loop /\ last'.pressed

PlainTick == Loop /\ ~ last'.pressed

ClockMoves ==
    /\ LoopBody(FALSE, TRUE) = LoopState
    /\ AdvanceTime
    /\ \A t \in TimePoints : t > now => now' <= t

SpecFinish ==
    /\ \E d \in {DocOnce, DocLoop, DocDisabled, DocUnsorted,
                DocRepeat(1), DocRepeat(2), DocRepeat(3)} :
          Boot(File(DocTexts[d]), TRUE)
    /\ [][StartTick \/ PlainTick \/ ClockMoves]_vars
    /\ WF_vars(PlainTick)
    /\ SF_vars(PlainTick /\ last'.sent)
    /\ WF_vars(ClockMoves)

(***************************************************************************)
(* C35: a playback that was started and is not interrupted ends: whenever  *)
(* the status is PLAYING or WAITING it is READY later.  A tick builds at   *)
(* most one event report: eventIndex moves on by one at most, and a tick   *)
(* that treats the list as exhausted builds no event report.               *)
(***************************************************************************)
C35_PlaybackEnds ==
    /\ (currentStatus \in {"PLAYING", "WAITING"}) ~> (currentStatus = "READY")
    /\ [][PlayTick => /\ player'.eventIndex \in {0, player.eventIndex,
                                                  player.eventIndex + 1}
                      /\ Len(played'.sent) <= Len(played.sent) + 1]_vars

\* the second and last pass of the macro with the count 2 has ended
C35_Witness ==
    /\ last.op = "loop"
    /\ currentStatus = "READY"
    /\ currentMacro = <<DocRepeat(2)>>
    /\ player.remainingLoops = 1
    /\ player.eventIndex = 2
    /\ now >= 1000

(***************************************************************************)
(* SpecSend: the browser sends named documents with sendMacro: the header  *)
(* START:<length>, the chunks of PieceLen bytes in order, END, one write   *)
(* after the other.  last.msg is the message written last, and so the      *)
(* place sendMacro has come to.                                            *)
(***************************************************************************)
SendMacro ==
    \E pad \in 0..PieceLen :
        \/ OnWriteOf({MetaAt(pad)})
        \/ \E j \in 1..Len(MetaChunks(pad)) :
              /\ last.op = "write"
              /\ last.msg = MetaAt(pad) + j - 1
              /\ OnWriteOf({MetaAt(pad) + j})
        \/ /\ last.op = "write"
           /\ last.msg = MetaAt(pad) + Len(MetaChunks(pad))
           /\ OnWriteOf({2})

SpecSend == Boot(NoFile, FALSE) /\ [][OnConnect \/ SendMacro]_vars

(***************************************************************************)
(* C39: when the END of sendMacro has been processed the receive buffer is *)
(* the whole payload, wherever the chunk boundaries fall in it.            *)
(***************************************************************************)
C39_RoundTrip ==
    [][\A pad \in 0..PieceLen :
          (/\ last.op = "write"
           /\ last.msg = MetaAt(pad) + Len(MetaChunks(pad))
           /\ last'.op = "write"
           /\ last'.msg = 2)
          => rxBuffer' = MetaText(pad)]_vars

(***************************************************************************)
(* SpecLost: the callbacks run on the task of the BLE host, loop() on its  *)
(* own task, and nothing orders the two.  An iteration that finds a        *)
(* transition to make is followed in two steps: LoopDecide evaluates the   *)
(* conditions of the iteration on the status it reads, LoopWrite makes the *)
(* assignments.  A callback may run between the two.                       *)
(***************************************************************************)
LoopDecide ==
    \E pressed \in BOOLEAN : \E ready \in BOOLEAN :
        \E st \in {LoopBody(pressed, ready)} :
            /\ pending.at = "idle"
            /\ st.status # currentStatus
            /\ st.played.passes <= MaxPasses
            /\ pending' = [at |-> "decided", from |-> currentStatus, st |-> st]
            /\ last' = Last("decide", 0, pressed, st.sent)
            /\ UNCHANGED <<currentStatus, statusChanged, rxBuffer, currentMacro,
                           player, report, fileStore, connected, led, now,
                           expected, played, ending>>

LoopWrite ==
    /\ pending.at = "decided"
    /\ pending' = NoDecision
    /\ currentStatus' = pending.st.status
    /\ statusChanged' = pending.st.changed
    /\ player' = pending.st.player
    /\ report' = pending.st.report
    /\ led' = pending.st.led
    /\ last' = Last("loop", 0, last.pressed, pending.st.sent)
    /\ played' = Track(pending.st.status, pending.st.played)
    /\ UNCHANGED <<rxBuffer, currentMacro, fileStore, connected, now,
                   expected, ending>>

SpecLost ==
    /\ Boot(File(DocTexts[DocOnce]), TRUE)
    /\ [][\/ OnConnect \/ OnDisconnect \/ OnWriteOf({1})
          \/ LoopDecide \/ LoopWrite
          \/ (pending.at = "idle" /\ Loop)
          \/ AdvanceTime]_vars

(***************************************************************************)
(* C34: a status set by a callback is not overwritten by a transition of   *)
(* the loop that was decided before the callback ran: when the loop writes *)
(* the status it decided on, the status is still the one it read.          *)
(***************************************************************************)
C34_NoLostUpdate ==
    [][pending.at = "decided" /\ pending'.at = "idle"
        => currentStatus = pending.from]_vars

====
